---------------------------- MODULE Spec2Model ----------------------------
(***************************************************************************)
(* A model of the ray tracer's core: the parallel render driver            *)
(* (tracer.rs, render), the recursive tracer (tracer.rs, trace_ray) and    *)
(* the spatial partitioners (kdtree.rs, octree.rs) over the geometry       *)
(* kernel (geometry.rs) and the primitives (object/).                      *)
(*                                                                         *)
(* Each subsystem has its own specification over the shared variables;     *)
(* the variables of the other subsystems stay at their idle values.        *)
(***************************************************************************)
EXTENDS Integers, Sequences, FiniteSets, TLC

\* render (tracer.rs:15-91)
VARIABLES x_res, y_res, num_threads, samples_per_pixel, scene_objects,
          rpc, y_block_size, pixels_rendered, kd_built, workers, image,
          counted

\* trace_ray (tracer.rs:94-152)
VARIABLES tpc, lights, cur, stack, ret, steps0, calls, leaf

\* the spatial partitioners (kdtree.rs, octree.rs)
VARIABLES ppc, objects, kdtree, octree, oct_args, ray, hit

\* AABBox::intersect_other on two boxes (geometry.rs:87-95)
VARIABLES boxpc, boxA, boxB, overAB, overBA

\* Sphere::intersect on a sphere and a ray (sphere.rs:22-66)
VARIABLES sphpc, sphere, sray, shit

\* Triangle::new, Triangle::opposite and Triangle::intersect (triangle.rs)
VARIABLES tripc, triangle, tri0, tray, thit, tback

\* build_node, one call at a time (kdtree.rs:42-92)
VARIABLES build_pc, build_objects, build_stack, build_leaves

\* Octant::new, one call at a time (octree.rs:39-93)
VARIABLES oct_pc, oct_call, oct_stack, oct_made

\* AABBox::intersect on a box and a ray (geometry.rs:98-154)
VARIABLES slab_pc, slab_box, slab_ray, slab_hit

\* AABBox::octants on a box, called twice (geometry.rs:72-85)
VARIABLES octs_box, octs_out

\* the RayIterator of Camera::rays (camera.rs:64-66, 82-180)
VARIABLES rays_pc, iter, items

renderVars == <<x_res, y_res, num_threads, samples_per_pixel, scene_objects,
                rpc, y_block_size, pixels_rendered, kd_built, workers, image,
                counted>>
traceVars == <<tpc, lights, cur, stack, ret, steps0, calls, leaf>>
treeVars == <<ppc, objects, kdtree, octree, oct_args, ray, hit>>
boxVars == <<boxpc, boxA, boxB, overAB, overBA>>
sphereVars == <<sphpc, sphere, sray, shit>>
triVars == <<tripc, triangle, tri0, tray, thit, tback>>
buildVars == <<build_pc, build_objects, build_stack, build_leaves>>
octantVars == <<oct_pc, oct_call, oct_stack, oct_made>>
slabVars == <<slab_pc, slab_box, slab_ray, slab_hit>>
octsVars == <<octs_box, octs_out>>
raysVars == <<rays_pc, iter, items>>

\* the state of the calls modelled one at a time
auxVars == <<buildVars, octantVars, slabVars, octsVars, raysVars>>

vars == <<renderVars, traceVars, treeVars, boxVars, sphereVars, triVars, auxVars>>

\* what the actions of one subsystem leave alone
geoVars == <<boxVars, sphereVars, triVars>>
mainVars == <<renderVars, traceVars, treeVars, geoVars>>
notBuild == <<mainVars, octantVars, slabVars, octsVars, raysVars>>
notOctant == <<mainVars, buildVars, slabVars, octsVars, raysVars>>
notSlab == <<mainVars, buildVars, octantVars, octsVars, raysVars>>
notOcts == <<mainVars, buildVars, octantVars, slabVars, raysVars>>
notRays == <<mainVars, buildVars, octantVars, slabVars, octsVars>>
notRender == <<traceVars, treeVars, boxVars, sphereVars, triVars, auxVars>>
notTrace == <<renderVars, treeVars, boxVars, sphereVars, triVars, auxVars>>
notTree == <<renderVars, traceVars, boxVars, sphereVars, triVars, auxVars>>
notBox == <<renderVars, traceVars, treeVars, sphereVars, triVars, auxVars>>
notSphere == <<renderVars, traceVars, treeVars, boxVars, triVars, auxVars>>
notTri == <<renderVars, traceVars, treeVars, boxVars, sphereVars, auxVars>>

(***************************************************************************)
(* Bounds of the model (not program constants).                            *)
(***************************************************************************)
MaxXRes == 2
MaxYRes == 5
MaxThreads == 2
MaxSamples == 2

Min(a, b) == IF a <= b THEN a ELSE b
Max(a, b) == IF a >= b THEN a ELSE b

(***************************************************************************)
(* render (tracer.rs:15-91)                                                *)
(*                                                                         *)
(* Inputs of one call: x_res, y_res, num_threads, samples_per_pixel (at     *)
(* least one sample: a pixel is the mean of its samples), the number of    *)
(* scene objects and the image buffer, which the caller allocates with     *)
(* x_res * y_res elements.                                                 *)
(*   rpc              where the calling thread is inside render            *)
(*   y_block_size     the local of line 24                                 *)
(*   pixels_rendered  the shared AtomicUsize of line 28                    *)
(*   kd_built         whether KdTree::from_objects has returned            *)
(*   workers          the spawned threads, in spawn order: thread_num is   *)
(*                    the index minus one; each has its position in the    *)
(*                    loops of lines 60-85                                 *)
(*   image            per element of the buffer: how many += it received   *)
(*                    and from which threads                               *)
(*   counted          the loop positions <<thread_num, y, x>> whose        *)
(*                    fetch_add (line 77) has executed                     *)
(***************************************************************************)
renderInputs == <<x_res, y_res, num_threads, samples_per_pixel, scene_objects>>

\* image.len(): the caller's buffer of x_res * y_res elements
ImageLen == x_res * y_res

\* the argument of chunks_mut (line 53)
ChunkSize == y_block_size * x_res

\* slice::chunks_mut(n) over ImageLen elements yields ceil(len / n) chunks
NumChunks == (ImageLen + ChunkSize - 1) \div ChunkSize

\* a mutant of ChunkBase: each chunk starts on the last element of the one before
ChunkBaseOverlapping(k) == IF k = 0 THEN 0 ELSE k * (y_block_size * x_res) - 1

\* the first element of chunk k and its length (the last chunk may be short)
ChunkBase(k) == k * ChunkSize
ChunkLen(k) == Min(ChunkSize, ImageLen - ChunkBase(k))

\* the thread_num of workers[i]
ThreadNum(i) == i - 1

WorkerIds == 1..Len(workers)

Terminated(i) == workers[i].pc \in {"done", "panicked"}
Active(i) == workers[i].pc \in {"spawned", "running"}

RenderInit ==
    /\ x_res \in 0..MaxXRes
    /\ y_res \in 0..MaxYRes
    /\ num_threads \in 0..MaxThreads
    /\ samples_per_pixel \in 1..MaxSamples
    /\ scene_objects \in 0..1
    /\ rpc = "entry"
    /\ y_block_size = 0
    /\ pixels_rendered = 0
    /\ kd_built = FALSE
    /\ workers = <<>>
    /\ image = [p \in 0..(x_res * y_res - 1) |-> [acc |-> 0, by |-> {}]]
    /\ counted = {}

\* line 24: y_res / num_threads panics on a zero divisor
RenderBlockSize ==
    /\ rpc = "entry"
    /\ IF num_threads = 0
         THEN /\ rpc' = "panicked"
              /\ UNCHANGED y_block_size
         ELSE /\ y_block_size' = y_res \div num_threads
              /\ rpc' = "build"
    /\ UNCHANGED <<notRender, renderInputs, pixels_rendered, kd_built, workers, image, counted>>

\* lines 46-49: KdTree::from_objects; build_node indexes object_idxs[0]
\* (kdtree.rs:49) and panics on an empty scene
RenderBuildTree ==
    /\ rpc = "build"
    /\ IF scene_objects = 0
         THEN /\ rpc' = "panicked"
              /\ UNCHANGED kd_built
         ELSE /\ kd_built' = TRUE
              /\ rpc' = "chunks"
    /\ UNCHANGED <<notRender, renderInputs, y_block_size, pixels_rendered, workers, image, counted>>

\* line 53: chunks_mut panics on a chunk size of 0; the panic is raised in
\* the scope's closure before any spawn, and crossbeam::scope resumes it
RenderChunks ==
    /\ rpc = "chunks"
    /\ rpc' = IF ChunkSize = 0 THEN "panicked" ELSE "spawn"
    /\ UNCHANGED <<notRender, renderInputs, y_block_size, pixels_rendered, kd_built, workers,
                   image, counted>>

\* lines 53-89: one iteration of the for loop spawns the thread of the next
\* chunk; when the chunks are exhausted the closure returns
RenderSpawn ==
    /\ rpc = "spawn"
    /\ IF Len(workers) < NumChunks
         THEN /\ workers' = Append(workers, [pc |-> "spawned", y |-> 0, x |-> 0, s |-> 0])
              /\ UNCHANGED rpc
         ELSE /\ rpc' = "join"
              /\ UNCHANGED workers
    /\ UNCHANGED <<notRender, renderInputs, y_block_size, pixels_rendered, kd_built, image, counted>>

\* a mutant of ScopeJoined: the scope returns without joining its threads
ScopeNotJoined == TRUE

\* whether crossbeam::scope may return: it joins every spawned thread
ScopeJoined == \A i \in WorkerIds : Terminated(i)

\* lines 52, 90: crossbeam::scope returns Ok or Err(the workers' panics);
\* `let _ =` drops the Result and render returns
RenderJoin ==
    /\ rpc = "join"
    /\ ScopeJoined
    /\ rpc' = "returned"
    /\ UNCHANGED <<notRender, renderInputs, y_block_size, pixels_rendered, kd_built, workers,
                   image, counted>>

\* line 59: the thread starts
WorkerStart(i) ==
    /\ workers[i].pc = "spawned"
    /\ workers' = [workers EXCEPT ![i].pc = "running"]
    /\ UNCHANGED <<notRender, renderInputs, rpc, y_block_size, pixels_rendered, kd_built, image,
                   counted>>

\* a mutant of ChunkIndex: the row stride is left out
ChunkIndexNoStride(w) == w.y + w.x

\* the index of line 69 into the chunk, and the element of the image it is
ChunkIndex(w) == w.y * x_res + w.x
ImageIndex(i) == ChunkBase(ThreadNum(i)) + ChunkIndex(workers[i])

InLoops(w) == w.pc = "running" /\ w.y < y_block_size /\ w.x < x_res

\* lines 66-76: one sample; chunk[y * x_res + x] panics out of bounds
WorkerSample(i) ==
    LET w == workers[i] IN
    /\ InLoops(w)
    /\ w.s < samples_per_pixel
    /\ IF ChunkIndex(w) >= ChunkLen(ThreadNum(i))
         THEN /\ workers' = [workers EXCEPT ![i].pc = "panicked"]
              /\ UNCHANGED image
         ELSE /\ image' = [image EXCEPT ![ImageIndex(i)] =
                              [acc |-> @.acc + 1, by |-> @.by \cup {ThreadNum(i)}]]
              /\ workers' = [workers EXCEPT ![i].s = w.s + 1]
    /\ UNCHANGED <<notRender, renderInputs, rpc, y_block_size, pixels_rendered, kd_built, counted>>

\* a mutant of FetchAdd: the counter advances by two
FetchAddTwo(c) == c + 2

\* AtomicUsize::fetch_add(1, Acquire)
FetchAdd(c) == c + 1

\* the loop position after the pixel at (y, x): x advances, then y
NextPixel(w) ==
    IF w.x + 1 < x_res
      THEN [w EXCEPT !.x = w.x + 1, !.s = 0]
      ELSE [w EXCEPT !.x = 0, !.y = w.y + 1, !.s = 0]

\* line 77 (and 79-84 at the end of a row): the samples of the pixel are
\* done, the counter is incremented and the loops advance
WorkerCount(i) ==
    LET w == workers[i] IN
    /\ InLoops(w)
    /\ w.s = samples_per_pixel
    /\ pixels_rendered' = FetchAdd(pixels_rendered)
    /\ counted' = counted \cup {<<ThreadNum(i), w.y, w.x>>}
    /\ workers' = [workers EXCEPT ![i] = NextPixel(w)]
    /\ UNCHANGED <<notRender, renderInputs, rpc, y_block_size, kd_built, image>>

\* line 86: the rows of the band are done (an empty row loop when x_res = 0
\* cannot occur here: chunks_mut(0) panicked before any spawn)
WorkerStop(i) ==
    LET w == workers[i] IN
    /\ w.pc = "running"
    /\ w.y >= y_block_size
    /\ workers' = [workers EXCEPT ![i].pc = "done"]
    /\ UNCHANGED <<notRender, renderInputs, rpc, y_block_size, pixels_rendered, kd_built, image,
                   counted>>

RenderNext ==
    \/ RenderBlockSize
    \/ RenderBuildTree
    \/ RenderChunks
    \/ RenderSpawn
    \/ RenderJoin
    \/ \E i \in WorkerIds : WorkerStart(i)
    \/ \E i \in WorkerIds : WorkerSample(i)
    \/ \E i \in WorkerIds : WorkerCount(i)
    \/ \E i \in WorkerIds : WorkerStop(i)

(***************************************************************************)
(* trace_ray (tracer.rs:94-152)                                            *)
(*                                                                         *)
(* The tracer is generic in the object set (&dyn Intersect) and each       *)
(* reflected ray leaves the hit point in a jittered direction, so what a   *)
(* ray hits is an input of every invocation: the object set reports no hit *)
(* or a hit at some squared distance, and so does every light.             *)
(*   tpc         "idle", or where the current invocation is: "enter"       *)
(*               (line 100), "found" (vec is filled, line 126),            *)
(*               "returned" (the invocation has returned ret), "done"      *)
(*               (the top-level call has returned)                         *)
(*   lights      the number of light spheres                               *)
(*   cur         the current invocation: its remaining_steps and its vec   *)
(*               of <<squared distance, is_light>> in push order           *)
(*   stack       the invocations suspended at line 144, innermost last:    *)
(*               their remaining_steps (nothing else of a suspended        *)
(*               invocation is read after its call returns)                *)
(*   tie         of an invocation, current or suspended: whether in its    *)
(*               vec the object hit and a light hit are both at the least  *)
(*               distance                                                  *)
(*   ret         the value the last finished invocation returned, in units *)
(*               of 1 / Scale                                              *)
(*   steps0      remaining_steps of the top-level call                     *)
(*   calls       the invocations of trace_ray made by the top-level call   *)
(*   leaf        how the innermost invocation ended: "light", "object"     *)
(*               (no bounce left) or "miss"                                *)
(***************************************************************************)
MaxSteps == 3
MaxLights == 2
MaxDist == 2

\* the fixed decay factor of line 144, in percent
Decay == 98

\* 1.0 in the fixed-point unit of ret: every product 0.98^k with k <= MaxSteps
\* is a whole number of units
RECURSIVE Pow(_, _)
Pow(b, k) == IF k = 0 THEN 1 ELSE b * Pow(b, k - 1)
Scale == Pow(100, MaxSteps)
One == Scale

\* a mutant of Attenuate: a bounce loses no energy
AttenuateNothing(v) == v

\* 0.98 * v; every value that is attenuated is a whole number of hundreds
Attenuate(v) == Decay * (v \div 100)

\* Option::None of an intersection: no squared distance
NoHit == -1
Dists == 1..MaxDist

\* the vec of lines 103-125: the object hit first, then the lights' hits in
\* the order of the lights
HitVec(obj, lts) ==
    (IF obj = NoHit THEN <<>> ELSE << <<obj, FALSE>> >>)
    \o [i \in 1..Cardinality({j \in DOMAIN lts : lts[j] /= NoHit}) |->
          LET j == CHOOSE j \in DOMAIN lts :
                     /\ lts[j] /= NoHit
                     /\ Cardinality({k \in 1..j : lts[k] /= NoHit}) = i
          IN <<lts[j], TRUE>>]

\* the object hit and a light hit of vec are both at the least distance
Tie(vec) ==
    /\ vec /= <<>>
    /\ ~vec[1][2]
    /\ \E j \in DOMAIN vec : vec[j][2] /\ vec[j][1] = vec[1][1]
    /\ \A j \in DOMAIN vec : vec[j][1] >= vec[1][1]

\* a mutant of NearestIdx: of the hits of least distance the last one pushed
\* is taken
NearestIdxLastOfTies(vec) ==
    IF vec = <<>> THEN 0
    ELSE CHOOSE i \in DOMAIN vec :
           /\ \A j \in DOMAIN vec : vec[i][1] <= vec[j][1]
           /\ \A j \in (i + 1)..Len(vec) : vec[j][1] > vec[i][1]

\* a mutant of NearestIdx: the first hit pushed is taken, whatever its distance
NearestIdxFirstPushed(vec) == IF vec = <<>> THEN 0 ELSE 1

\* Iterator::min_by with partial_cmp (lines 127-131): the first of the
\* elements of least distance; 0 for an empty vec
NearestIdx(vec) ==
    IF vec = <<>> THEN 0
    ELSE CHOOSE i \in DOMAIN vec :
           /\ \A j \in DOMAIN vec : vec[i][1] <= vec[j][1]
           /\ \A j \in 1..(i - 1) : vec[j][1] > vec[i][1]

NearestIsLight(vec) == NearestIdx(vec) /= 0 /\ vec[NearestIdx(vec)][2]
NearestIsObject(vec) == NearestIdx(vec) /= 0 /\ ~vec[NearestIdx(vec)][2]

\* a mutant of BouncesRemain: the last step still recurses
BouncesRemainOffByOne(remaining_steps) == remaining_steps > 0

\* line 139
BouncesRemain(remaining_steps) == remaining_steps > 1

TraceIdle ==
    /\ tpc = "idle"
    /\ lights = 0
    /\ cur = [remaining_steps |-> 0, vec |-> <<>>, tie |-> FALSE]
    /\ stack = <<>>
    /\ ret = 0
    /\ steps0 = 0
    /\ calls = 0
    /\ leaf = "none"

\* a top-level call trace_ray(ray, objects, lights, n)
TraceCall ==
    /\ tpc \in {"idle", "done"}
    /\ \E n \in 0..MaxSteps, l \in 0..MaxLights :
         /\ lights' = l
         /\ steps0' = n
         /\ cur' = [remaining_steps |-> n, vec |-> <<>>, tie |-> FALSE]
    /\ tpc' = "enter"
    /\ stack' = <<>>
    /\ ret' = 0
    /\ calls' = 1
    /\ leaf' = "none"
    /\ UNCHANGED notTrace

\* lines 103-125: the intersections of the ray of this invocation
TraceIntersect ==
    /\ tpc = "enter"
    /\ \E obj \in {NoHit} \cup Dists, lts \in [1..lights -> {NoHit} \cup Dists] :
         cur' = [cur EXCEPT !.vec = HitVec(obj, lts),
                            !.tie = Tie(HitVec(obj, lts))]
    /\ tpc' = "found"
    /\ UNCHANGED <<notTrace, lights, stack, ret, steps0, calls, leaf>>

\* lines 134-136: the nearest hit is a light
TraceLight ==
    /\ tpc = "found"
    /\ NearestIsLight(cur.vec)
    /\ ret' = One
    /\ leaf' = "light"
    /\ tpc' = "returned"
    /\ UNCHANGED <<notTrace, lights, cur, stack, steps0, calls>>

\* lines 137-144: the nearest hit is an object and bounces remain: the
\* invocation is suspended and trace_ray is entered with remaining_steps - 1
TraceReflect ==
    /\ tpc = "found"
    /\ NearestIsObject(cur.vec)
    /\ BouncesRemain(cur.remaining_steps)
    /\ stack' = Append(stack, [remaining_steps |-> cur.remaining_steps,
                                tie |-> cur.tie])
    /\ cur' = [remaining_steps |-> cur.remaining_steps - 1, vec |-> <<>>,
               tie |-> FALSE]
    /\ calls' = calls + 1
    /\ tpc' = "enter"
    /\ UNCHANGED <<notTrace, lights, ret, steps0, leaf>>

\* lines 145-148: the nearest hit is an object and no bounce remains
TraceNoBounce ==
    /\ tpc = "found"
    /\ NearestIsObject(cur.vec)
    /\ ~BouncesRemain(cur.remaining_steps)
    /\ ret' = 0
    /\ leaf' = "object"
    /\ tpc' = "returned"
    /\ UNCHANGED <<notTrace, lights, cur, stack, steps0, calls>>

\* lines 149-151: nothing is hit
TraceMiss ==
    /\ tpc = "found"
    /\ NearestIdx(cur.vec) = 0
    /\ ret' = 0
    /\ leaf' = "miss"
    /\ tpc' = "returned"
    /\ UNCHANGED <<notTrace, lights, cur, stack, steps0, calls>>

\* line 144: the recursive call has returned ret; the suspended invocation
\* returns 0.98 * ret
TraceResume ==
    /\ tpc = "returned"
    /\ stack /= <<>>
    /\ cur' = [remaining_steps |-> stack[Len(stack)].remaining_steps, vec |-> <<>>,
               tie |-> stack[Len(stack)].tie]
    /\ stack' = SubSeq(stack, 1, Len(stack) - 1)
    /\ ret' = Attenuate(ret)
    /\ UNCHANGED <<notTrace, tpc, lights, steps0, calls, leaf>>

\* the top-level call returns to its caller
TraceDone ==
    /\ tpc = "returned"
    /\ stack = <<>>
    /\ tpc' = "done"
    /\ UNCHANGED <<notTrace, lights, cur, stack, ret, steps0, calls, leaf>>

TraceNext ==
    \/ TraceCall
    \/ TraceIntersect
    \/ TraceLight
    \/ TraceReflect
    \/ TraceNoBounce
    \/ TraceMiss
    \/ TraceResume
    \/ TraceDone

(***************************************************************************)
(* Geometry kernel (geometry.rs) and primitives (object/)                  *)
(*                                                                         *)
(* Coordinates are integers and a vector is <<x, y, z>>; axis 0, 1, 2 of   *)
(* the code is index 1, 2, 3.  A ray is [origin, dir] with dir an integer  *)
(* vector along the code's unit direction: the code's parameter along the  *)
(* ray is |dir| times the model's, the same factor for every hit of one    *)
(* ray, and a hit is kept as the exact fraction tn / td of the model's     *)
(* parameter.  The offset of a hit point along the normal (1e-4, 1e-3) and *)
(* the jitter of the returned normal are below this resolution.            *)
(***************************************************************************)
Axes == 1..3

Sub(a, b) == [i \in Axes |-> a[i] - b[i]]
Add(a, b) == [i \in Axes |-> a[i] + b[i]]
Mul(k, a) == [i \in Axes |-> k * a[i]]
Dot(a, b) == a[1] * b[1] + a[2] * b[2] + a[3] * b[3]
Cross(a, b) == <<a[2] * b[3] - a[3] * b[2],
                 a[3] * b[1] - a[1] * b[3],
                 a[1] * b[2] - a[2] * b[1]>>
Zero3 == <<0, 0, 0>>

\* Float::INFINITY (geometry.rs:102-103): above every |t| of the model
Infinity == 1000000

\* AABBox::new (geometry.rs:65-70)
AABBoxNew(a, b) ==
    [min |-> [i \in Axes |-> Min(a[i], b[i])],
     max |-> [i \in Axes |-> Max(a[i], b[i])]]

\* AABBox::merge, the bounding union (called at kdtree.rs:50)
Merge(b1, b2) ==
    [min |-> [i \in Axes |-> Min(b1.min[i], b2.min[i])],
     max |-> [i \in Axes |-> Max(b1.max[i], b2.max[i])]]

\* a mutant of Octants: the last octant repeats the corner of the fifth
OctantsRepeatedCorner(box) ==
    LET middle == [i \in Axes |-> (box.min[i] + box.max[i]) \div 2] IN
    << AABBoxNew(box.min, middle),
       AABBoxNew(<<box.max[1], box.min[2], box.min[3]>>, middle),
       AABBoxNew(<<box.min[1], box.max[2], box.min[3]>>, middle),
       AABBoxNew(<<box.min[1], box.min[2], box.max[3]>>, middle),
       AABBoxNew(box.max, middle),
       AABBoxNew(<<box.min[1], box.max[2], box.max[3]>>, middle),
       AABBoxNew(<<box.max[1], box.min[2], box.max[3]>>, middle),
       AABBoxNew(box.max, middle) >>

\* AABBox::octants (geometry.rs:72-85), in the order of the array
Octants(box) ==
    LET middle == [i \in Axes |-> (box.min[i] + box.max[i]) \div 2] IN
    << AABBoxNew(box.min, middle),
       AABBoxNew(<<box.max[1], box.min[2], box.min[3]>>, middle),
       AABBoxNew(<<box.min[1], box.max[2], box.min[3]>>, middle),
       AABBoxNew(<<box.min[1], box.min[2], box.max[3]>>, middle),
       AABBoxNew(box.max, middle),
       AABBoxNew(<<box.min[1], box.max[2], box.max[3]>>, middle),
       AABBoxNew(<<box.max[1], box.min[2], box.max[3]>>, middle),
       AABBoxNew(<<box.max[1], box.max[2], box.min[3]>>, middle) >>

\* a mutant of IntervalIntersect: intervals that only touch do not overlap
IntervalIntersectStrict(a, b) == ~(b[1] >= a[2] \/ a[1] >= b[2])

\* a mutant of IntervalIntersect: only one of the two ends is compared
IntervalIntersectOneSided(a, b) == ~(b[1] > a[2])

\* interval_intersect (geometry.rs:88-90)
IntervalIntersect(a, b) == ~(b[1] > a[2] \/ a[1] > b[2])

\* a mutant of IntersectOther: the axes are joined by || instead of &&
IntersectOtherAnyAxis(self, other) ==
    \E i \in 1..3 :
       ~(other.min[i] > self.max[i] \/ self.min[i] > other.max[i])

\* a mutant of IntersectOther: the z axis is not compared
IntersectOtherXY(self, other) ==
    \A i \in 1..2 :
       ~(other.min[i] > self.max[i] \/ self.min[i] > other.max[i])

\* AABBox::intersect_other (geometry.rs:87-95)
IntersectOther(self, other) ==
    \A i \in Axes :
       IntervalIntersect(<<self.min[i], self.max[i]>>, <<other.min[i], other.max[i]>>)

\* Ray.dir_recip for a non-zero component of dir (-1 or 1), in units of
\* 1 / |dir|
Recip(c) == c

\* a mutant of Slab: the two distances are taken as entry and exit without
\* ordering them
SlabUnordered(box, r, i, win) ==
    IF r.dir[i] /= 0
      THEN [tmin |-> Max(win.tmin, (box.min[i] - r.origin[i]) * Recip(r.dir[i])),
            tmax |-> Min(win.tmax, (box.max[i] - r.origin[i]) * Recip(r.dir[i]))]
      ELSE win

\* a mutant of Slab: on an axis the ray is parallel to, an origin outside
\* the interval of the box empties the window
SlabChecksParallel(box, r, i, win) ==
    IF r.dir[i] /= 0
      THEN [tmin |-> Max(win.tmin, Min((box.min[i] - r.origin[i]) * Recip(r.dir[i]),
                                       (box.max[i] - r.origin[i]) * Recip(r.dir[i]))),
            tmax |-> Min(win.tmax, Max((box.min[i] - r.origin[i]) * Recip(r.dir[i]),
                                       (box.max[i] - r.origin[i]) * Recip(r.dir[i])))]
      ELSE IF box.min[i] <= r.origin[i] /\ r.origin[i] <= box.max[i]
        THEN win
        ELSE [tmin |-> Infinity, tmax |-> -Infinity]

\* one axis of the slab method (geometry.rs:105-111, 113-119, 121-127)
Slab(box, r, i, win) ==
    IF r.dir[i] /= 0
      THEN LET t1 == (box.min[i] - r.origin[i]) * Recip(r.dir[i])
               t2 == (box.max[i] - r.origin[i]) * Recip(r.dir[i])
           IN [tmin |-> Max(win.tmin, Min(t1, t2)),
               tmax |-> Min(win.tmax, Max(t1, t2))]
      ELSE win

\* AABBox::intersect (geometry.rs:98-154): whether it returns Some
AABBoxHit(box, r) ==
    LET w0 == [tmin |-> -Infinity, tmax |-> Infinity]
        w1 == Slab(box, r, 1, w0)
        w2 == Slab(box, r, 2, w1)
        w3 == Slab(box, r, 3, w2)
    IN w3.tmax >= w3.tmin

\* Option<Ray> of Intersect::intersect: None, or the hit at parameter
\* tn / td (td > 0) with the given normal direction
None == [some |-> FALSE]
Some(tn, td, normal) == [some |-> TRUE, tn |-> tn, td |-> td, normal |-> normal]

\* ray.origin.distance_squared(a.origin) < ...(b.origin) for two hits of one
\* ray
DistLess(a, b) == (a.tn * b.td) * (a.tn * b.td) < (b.tn * a.td) * (b.tn * a.td)

Neg(a) == [i \in Axes |-> -a[i]]

\* a mutant of TriangleNew: the cross product is taken in the other order
TriangleNewLeftHanded(a, b, c) ==
    [kind |-> "triangle", a |-> a, b |-> b, c |-> c,
     normal |-> Cross(Sub(c, a), Sub(b, a))]

\* Triangle::new (triangle.rs:16-23); the normal is kept unnormalised, and
\* <<0, 0, 0>> is the NaN vector that normalising a zero cross product gives
TriangleNew(a, b, c) ==
    [kind |-> "triangle", a |-> a, b |-> b, c |-> c,
     normal |-> Cross(Sub(b, a), Sub(c, a))]

\* Triangle::opposite (triangle.rs:35-42)
TriangleOpposite(self) ==
    [kind |-> "triangle", a |-> self.c, b |-> self.b, c |-> self.a,
     normal |-> Neg(self.normal)]

\* a mutant of FromBehind: the test looks the other way
FromBehindReversed(n, dir) == Dot(n, dir) < 0

\* the test of triangle.rs:64
FromBehind(n, dir) == Dot(n, dir) > 0

\* Triangle::intersect (triangle.rs:59-117)
TriangleIntersect(tri, r) ==
    LET n == tri.normal
        nd == Dot(n, r.dir)
        num == Dot(Sub(tri.a, r.origin), n)
        \* t = num / nd = tn / td with td > 0
        td == -nd
        tn == -num
        \* td * p and td * (p - v)
        tdp == Add(Mul(td, r.origin), Mul(tn, r.dir))
        rel(v) == Sub(tdp, Mul(td, v))
        ab == Sub(tri.b, tri.a)
        bc == Sub(tri.c, tri.b)
        ca == Sub(tri.a, tri.c)
    IN IF n = Zero3 THEN None          \* every comparison with NaN is false
       ELSE IF FromBehind(n, r.dir) THEN None   \* line 64
       ELSE IF nd = 0 THEN None        \* t is infinite or NaN: lines 75, 105
       ELSE IF tn <= 0 THEN None       \* line 75: t <= 0
       ELSE IF /\ Dot(n, Cross(ab, rel(tri.a))) >= 0
               /\ Dot(n, Cross(bc, rel(tri.b))) >= 0
               /\ Dot(n, Cross(ca, rel(tri.c))) >= 0
              THEN Some(tn, td, n)
              ELSE None

\* Triangle::bounds (triangle.rs:119-132)
TriangleBounds(tri) ==
    [min |-> [i \in Axes |-> Min(Min(tri.a[i], tri.b[i]), tri.c[i])],
     max |-> [i \in Axes |-> Max(Max(tri.a[i], tri.b[i]), tri.c[i])]]

\* an AABBox used as a primitive (impl Intersect for AABBox)
BoxPrim(a, b) == [kind |-> "aabbox", box |-> AABBoxNew(a, b)]

\* Intersect::intersect of a primitive; an AABBox returns the ray itself
\* (geometry.rs:150), a hit at distance 0
Intersect(obj, r) ==
    IF obj.kind = "triangle" THEN TriangleIntersect(obj, r)
    ELSE IF AABBoxHit(obj.box, r) THEN Some(0, 1, r.dir) ELSE None

\* Intersect::bounds of a primitive
Bounds(obj) ==
    IF obj.kind = "triangle" THEN TriangleBounds(obj) ELSE obj.box

\* the hits of a sequence of candidates, in order, None dropped
\* (Iterator::filter_map)
RECURSIVE FilterHits(_)
FilterHits(cands) ==
    IF cands = <<>> THEN <<>>
    ELSE (IF cands[1].some THEN <<cands[1]>> ELSE <<>>) \o FilterHits(Tail(cands))

(***************************************************************************)
(* KdTree (kdtree.rs)                                                      *)
(***************************************************************************)
MIN_OBJECTS_IN_LEAF == 32

\* vec[mid] after select_nth_unstable_by(mid, total_cmp) (kdtree.rs:68-70):
\* the element at index mid (0-based) of vec in ascending order
SelectNth(vec, mid) ==
    LET vals == {vec[i] : i \in DOMAIN vec} IN
    CHOOSE v \in vals :
        /\ Cardinality({i \in DOMAIN vec : vec[i] < v}) <= mid
        /\ Cardinality({i \in DOMAIN vec : vec[i] <= v}) > mid

\* a mutant of FoldBounds: the box of the first member is kept as it is
FoldBoundsFirstOnly(all_objects, object_idxs, bbox) == bbox

\* the fold of kdtree.rs:47-51
RECURSIVE FoldBounds(_, _, _)
FoldBounds(all_objects, object_idxs, bbox) ==
    IF object_idxs = <<>> THEN bbox
    ELSE FoldBounds(all_objects, Tail(object_idxs),
                    Merge(bbox, Bounds(all_objects[object_idxs[1]])))

\* the filter of left_objs (kdtree.rs:75-79): the bounds start at or before
\* the median
GoesLeft(bounds, ax, median) == bounds.min[ax] <= median

\* a mutant of GoesRight: the comparison the wrong way round
GoesRightWrongWay(bounds, ax, median) == bounds.max[ax] <= median

\* the filter of right_objs (kdtree.rs:80-84): the bounds end at or after
\* the median
GoesRight(bounds, ax, median) == bounds.max[ax] >= median

\* the median of kdtree.rs:57-71: the mins then the maxes of the members on
\* the axis, and the element at index len / 2 of them in ascending order
Median(all_objects, object_idxs, ax) ==
    LET vec == [i \in 1..(2 * Len(object_idxs)) |->
                  IF i <= Len(object_idxs)
                    THEN Bounds(all_objects[object_idxs[i]]).min[ax]
                    ELSE Bounds(all_objects[object_idxs[i - Len(object_idxs)]]).max[ax]]
    IN SelectNth(vec, Len(vec) \div 2)

\* left_objs (kdtree.rs:75-79) and right_objs (kdtree.rs:80-84)
LeftObjs(all_objects, object_idxs, ax) ==
    LET median == Median(all_objects, object_idxs, ax) IN
    SelectSeq(object_idxs,
              LAMBDA idx : GoesLeft(Bounds(all_objects[idx]), ax, median))

RightObjs(all_objects, object_idxs, ax) ==
    LET median == Median(all_objects, object_idxs, ax) IN
    SelectSeq(object_idxs,
              LAMBDA idx : GoesRight(Bounds(all_objects[idx]), ax, median))

\* build_node (kdtree.rs:42-92); object_idxs holds indices into all_objects
\* (1-based here) and is not empty; current_axis is 0, 1 or 2
RECURSIVE BuildNode(_, _, _)
BuildNode(all_objects, object_idxs, current_axis) ==
    LET bbox == FoldBounds(all_objects, object_idxs,
                           Bounds(all_objects[object_idxs[1]]))
        ax == current_axis + 1
        left_objs == LeftObjs(all_objects, object_idxs, ax)
        right_objs == RightObjs(all_objects, object_idxs, ax)
    IN IF Len(object_idxs) < MIN_OBJECTS_IN_LEAF
         THEN [kind |-> "Leaf", bbox |-> bbox, objects |-> object_idxs]
         ELSE [kind |-> "Branch", bbox |-> bbox,
               left |-> BuildNode(all_objects, left_objs, (current_axis + 1) % 3),
               right |-> BuildNode(all_objects, right_objs, (current_axis + 1) % 3)]

\* KdTree::from_objects (kdtree.rs:27-39): the root over all the indices
FromObjects(all_objects) ==
    [root |-> BuildNode(all_objects, [i \in 1..Len(all_objects) |-> i], 0),
     objects |-> all_objects]

\* Iterator::min_by with total_cmp on the squared distance
\* (kdtree.rs:138-142): the first of the nearest hits, None if there is none
RECURSIVE MinByFirst(_, _)
MinByFirst(best, hits) ==
    IF hits = <<>> THEN best
    ELSE MinByFirst(IF DistLess(hits[1], best) THEN hits[1] ELSE best, Tail(hits))

\* a mutant of LeafNearest: the first hit found is returned
LeafFirstHit(hits) == IF hits = <<>> THEN None ELSE hits[1]

LeafNearest(hits) ==
    IF hits = <<>> THEN None ELSE MinByFirst(hits[1], Tail(hits))

\* a mutant of BranchNearest: the left child's hit wins when both hit
BranchFavoursLeft(left, right) ==
    IF left.some THEN left ELSE right

\* the nearest of the two children's hits as kdtree.rs:119-131 picks it
BranchNearest(left, right) ==
    IF left.some /\ right.some
      THEN (IF DistLess(left, left) THEN left ELSE right)
    ELSE IF right.some THEN right
    ELSE left

\* Node::intersect (kdtree.rs:105-145)
RECURSIVE NodeIntersect(_, _, _)
NodeIntersect(node, r, all_objects) ==
    IF ~AABBoxHit(node.bbox, r) THEN None
    ELSE IF node.kind = "Branch"
      THEN BranchNearest(NodeIntersect(node.left, r, all_objects),
                         NodeIntersect(node.right, r, all_objects))
      ELSE LeafNearest(FilterHits([i \in DOMAIN node.objects |->
                                      Intersect(all_objects[node.objects[i]], r)]))

\* KdTree::intersect (kdtree.rs:95-97)
KdTreeIntersect(tree, r) == NodeIntersect(tree.root, r, tree.objects)

(***************************************************************************)
(* Octree (octree.rs)                                                      *)
(***************************************************************************)
NoChild == [child |-> FALSE]

\* Octant::new (octree.rs:39-93); a child is None (NoChild) or an octant
RECURSIVE OctantNew(_, _, _, _, _)
OctantNew(bbox, objs, max_depth, cur_depth, max_objects_in_leaf) ==
    IF cur_depth = max_depth \/ Len(objs) <= max_objects_in_leaf
      THEN [child |-> TRUE, bbox |-> bbox,
            children |-> [i \in 1..8 |-> NoChild], objects |-> objs]
      ELSE LET bboxes == Octants(bbox)
               objects_in_child == [i \in 1..8 |->
                   SelectSeq(objs, LAMBDA obj : IntersectOther(bboxes[i], Bounds(obj)))]
           IN [child |-> TRUE, bbox |-> bbox,
               children |-> [i \in 1..8 |->
                   IF objects_in_child[i] /= <<>>
                     THEN OctantNew(bboxes[i], objects_in_child[i], max_depth,
                                    cur_depth + 1, max_objects_in_leaf)
                     ELSE NoChild],
               objects |-> <<>>]

\* Octree::new (octree.rs:20-35): the root has depth 1
OctreeNew(objs, max_depth, max_objects_in_leaf, bbox) ==
    [root |-> OctantNew(bbox, objs, max_depth, 1, max_objects_in_leaf)]

\* Iterator::min_by with the comparator of octree.rs:122-130, which never
\* answers Equal: of two hits at the same distance the later one is kept
RECURSIVE MinByLast(_, _)
MinByLast(best, hits) ==
    IF hits = <<>> THEN best
    ELSE MinByLast(IF DistLess(best, hits[1]) THEN best ELSE hits[1], Tail(hits))

OctantNearest(hits) ==
    IF hits = <<>> THEN None ELSE MinByLast(hits[1], Tail(hits))

\* Octant::intersect (octree.rs:110-131): the children's hits, then the
\* hits of the octant's own objects
RECURSIVE OctantIntersect(_, _)
OctantIntersect(oct, r) ==
    IF ~AABBoxHit(oct.bbox, r) THEN None
    ELSE LET child_intersects == FilterHits([i \in 1..8 |->
                 IF oct.children[i].child
                   THEN OctantIntersect(oct.children[i], r)
                   ELSE None])
             object_intersects == FilterHits([i \in DOMAIN oct.objects |->
                 Intersect(oct.objects[i], r)])
         IN OctantNearest(child_intersects \o object_intersects)

\* Octree::intersect (octree.rs:97-102)
OctreeIntersect(tree, r) == OctantIntersect(tree.root, r)

(***************************************************************************)
(* The partitioners as a state machine: a collection of primitives, a tree *)
(* built over it and rays traced against the tree.                         *)
(*   ppc       "scene" (no tree yet), "built", "queried"                   *)
(*   objects   the primitives, in the caller's order                       *)
(*   kdtree    the KdTree, or NoTree                                       *)
(*   octree    the Octree, or NoTree                                       *)
(*   oct_args  the arguments of Octree::new                                *)
(*   ray, hit  the last ray given to intersect and what it returned        *)
(***************************************************************************)
MaxObjects == 2
MaxOctDepth == 2

NoTree == [built |-> FALSE]
NoRay == [origin |-> Zero3, dir |-> Zero3]
NoArgs == [max_depth |-> 0, max_objects_in_leaf |-> 0, bbox |-> AABBoxNew(Zero3, Zero3)]

\* the primitives scenes are made of: two stacked triangles facing +z, one
\* facing -z above them, one facing +x beside them, and a box
PrimPool ==
    { TriangleNew(<<-1, -1, 0>>, <<2, -1, 0>>, <<-1, 2, 0>>),
      TriangleNew(<<-1, -1, 1>>, <<2, -1, 1>>, <<-1, 2, 1>>),
      TriangleNew(<<-1, -1, 2>>, <<-1, 2, 2>>, <<2, -1, 2>>),
      TriangleNew(<<-2, -1, -1>>, <<-2, 2, -1>>, <<-2, -1, 2>>),
      BoxPrim(<<1, 1, 1>>, <<2, 2, 2>>) }

Scenes == UNION {[1..n -> PrimPool] : n \in 1..MaxObjects}

RayOrigins == {<<0, 0, 3>>, <<0, 0, -3>>, <<3, 0, 1>>, <<-3, 1, 1>>}
RayDirs == {d \in [Axes -> {-1, 0, 1}] : d /= Zero3}
Rays == [origin : RayOrigins, dir : RayDirs]

\* half the side of the large root box: the octants down to MaxOctDepth have
\* whole-numbered corners
RootHalf == Pow(2, MaxOctDepth)

\* root boxes a caller may pass: one around every primitive of the pool, one
\* that leaves out the primitives with a negative coordinate
RootBoxes ==
    { AABBoxNew(<<-RootHalf, -RootHalf, -RootHalf>>, <<RootHalf, RootHalf, RootHalf>>),
      AABBoxNew(Zero3, <<RootHalf, RootHalf, RootHalf>>) }

LeafThresholds == {0, 1}

TreeIdle ==
    /\ ppc = "idle"
    /\ objects = <<>>
    /\ kdtree = NoTree
    /\ octree = NoTree
    /\ oct_args = NoArgs
    /\ ray = NoRay
    /\ hit = None

TreeInit ==
    /\ ppc = "scene"
    /\ objects \in Scenes
    /\ kdtree = NoTree
    /\ octree = NoTree
    /\ oct_args = NoArgs
    /\ ray = NoRay
    /\ hit = None

\* KdTree::from_objects(objects)
KdFromObjects ==
    /\ ppc = "scene"
    /\ kdtree' = FromObjects(objects)
    /\ ppc' = "built"
    /\ UNCHANGED <<notTree, objects, octree, oct_args, ray, hit>>

\* tree.intersect(ray) on the KdTree
KdIntersect ==
    /\ ppc = "built"
    /\ kdtree /= NoTree
    /\ \E r \in Rays :
         /\ ray' = r
         /\ hit' = KdTreeIntersect(kdtree, r)
    /\ ppc' = "queried"
    /\ UNCHANGED <<notTree, objects, kdtree, octree, oct_args>>

KdNext ==
    \/ KdFromObjects
    \/ KdIntersect

\* Octree::new(objects, max_depth, max_objects_in_leaf, bbox)
OctNew ==
    /\ ppc = "scene"
    /\ \E d \in 1..MaxOctDepth, m \in LeafThresholds, b \in RootBoxes :
         /\ oct_args' = [max_depth |-> d, max_objects_in_leaf |-> m, bbox |-> b]
         /\ octree' = OctreeNew(objects, d, m, b)
    /\ ppc' = "built"
    /\ UNCHANGED <<notTree, objects, kdtree, ray, hit>>

\* tree.intersect(ray) on the Octree
OctIntersect ==
    /\ ppc = "built"
    /\ octree /= NoTree
    /\ \E r \in Rays :
         /\ ray' = r
         /\ hit' = OctreeIntersect(octree, r)
    /\ ppc' = "queried"
    /\ UNCHANGED <<notTree, objects, kdtree, octree, oct_args>>

OctNext ==
    \/ OctNew
    \/ OctIntersect

(***************************************************************************)
(* Collections large enough for build_node to split: a row of triangles,   *)
(* the i-th in the plane x = i - 1, all facing -x or all facing +x, the    *)
(* last one replaced, if wide, by a triangle that spans the whole row.     *)
(***************************************************************************)
\* a triangle in the plane x = x0 facing -x or +x; the rays of Rays along
\* the x axis pass through its interior
RowTriangle(x0, facing) ==
    IF facing = "-x"
      THEN TriangleNew(<<x0, -1, -1>>, <<x0, -1, 4>>, <<x0, 4, -1>>)
      ELSE TriangleNew(<<x0, -1, -1>>, <<x0, 4, -1>>, <<x0, -1, 4>>)

\* a triangle beside the row, as long as the row
WideTriangle(n) == TriangleNew(<<0, 5, 5>>, <<n - 1, 5, 5>>, <<0, 6, 5>>)

Row(n, facing, wide) ==
    [i \in 1..n |-> IF wide /\ i = n THEN WideTriangle(n)
                    ELSE RowTriangle(i - 1, facing)]

\* the sizes at and just above the leaf threshold
RowSizes == {MIN_OBJECTS_IN_LEAF, MIN_OBJECTS_IN_LEAF + 1}

RowScenes == {Row(n, facing, wide) : n \in RowSizes, facing \in {"-x", "+x"},
                                     wide \in BOOLEAN}

\* a column of triangles, the i-th in the plane y = i - 1: all of them have
\* the same bounds on x and z, so the first split sends every index to both
\* sides and the split on y, one level down, separates them
ColumnTriangle(y0) == TriangleNew(<<-1, y0, -1>>, <<4, y0, -1>>, <<-1, y0, 4>>)

Column(n) == [i \in 1..n |-> ColumnTriangle(i - 1)]

ColumnScenes == {Column(n) : n \in RowSizes}

RowInit ==
    /\ ppc = "scene"
    /\ objects \in RowScenes \cup ColumnScenes
    /\ kdtree = NoTree
    /\ octree = NoTree
    /\ oct_args = NoArgs
    /\ ray = NoRay
    /\ hit = None

\* collections of every size of the model, below the leaf threshold and not
AnySizeInit ==
    /\ ppc = "scene"
    /\ objects \in Scenes \cup RowScenes \cup ColumnScenes
    /\ kdtree = NoTree
    /\ octree = NoTree
    /\ oct_args = NoArgs
    /\ ray = NoRay
    /\ hit = None

(***************************************************************************)
(* build_node as the calls it makes (kdtree.rs:42-92)                      *)
(*                                                                         *)
(* build_stack holds the calls of build_node that are still to run, the    *)
(* next one last; a call is its object_idxs, its current_axis and same,    *)
(* the number of enclosing calls in a row that had the same object_idxs.   *)
(* build_node is a function of object_idxs and current_axis and the axis   *)
(* has a period of 3, so a call with same = 3 repeats an enclosing call:   *)
(* the recursion never returns and the thread runs out of stack.           *)
(*   build_leaves   the index lists of the Leaf nodes returned so far      *)
(***************************************************************************)
\* 32 or 33 primitives with the same bounds
Pile(n, prim) == [i \in 1..n |-> prim]

\* the i-th triangle has the bounds [-i, i] on every axis
NestTriangle(i) == TriangleNew(<<-i, -i, -i>>, <<i, i, i>>, <<i, -i, 0>>)

Nest(n) == [i \in 1..n |-> NestTriangle(i)]

BuildScenes ==
    Scenes \cup RowScenes \cup ColumnScenes
        \cup {Pile(n, prim) : n \in RowSizes, prim \in PrimPool}
        \cup {Nest(n) : n \in RowSizes}

BuildIdle ==
    /\ build_pc = "idle"
    /\ build_objects = <<>>
    /\ build_stack = <<>>
    /\ build_leaves = <<>>

BuildInit ==
    /\ build_pc = "scene"
    /\ build_objects \in BuildScenes
    /\ build_stack = <<>>
    /\ build_leaves = <<>>

\* from_objects calls build_node on all the indices (kdtree.rs:28-33)
BuildFromObjects ==
    /\ build_pc = "scene"
    /\ build_pc' = "building"
    /\ build_stack' = <<[object_idxs |-> [i \in 1..Len(build_objects) |-> i],
                         current_axis |-> 0, same |-> 0]>>
    /\ UNCHANGED <<build_objects, build_leaves, notBuild>>

\* the call returns a Leaf (kdtree.rs:53-55); from_objects returns when no
\* call is left
BuildLeaf ==
    /\ build_pc = "building"
    /\ LET call == build_stack[Len(build_stack)] IN
        /\ Len(call.object_idxs) < MIN_OBJECTS_IN_LEAF
        /\ build_leaves' = Append(build_leaves, call.object_idxs)
        /\ build_stack' = SubSeq(build_stack, 1, Len(build_stack) - 1)
        /\ build_pc' = IF Len(build_stack) = 1 THEN "returned" ELSE "building"
    /\ UNCHANGED <<build_objects, notBuild>>

\* the call of a child on the list left or right of the median
ChildCall(call, objs) ==
    [object_idxs |-> objs, current_axis |-> (call.current_axis + 1) % 3,
     same |-> IF objs = call.object_idxs THEN call.same + 1 ELSE 0]

\* the call computes the median and the two lists and calls build_node on
\* the left one, then on the right one (kdtree.rs:57-89)
BuildBranch ==
    /\ build_pc = "building"
    /\ LET call == build_stack[Len(build_stack)]
           ax == call.current_axis + 1
       IN
        /\ Len(call.object_idxs) >= MIN_OBJECTS_IN_LEAF
        /\ call.same < 3
        /\ build_stack' =
             SubSeq(build_stack, 1, Len(build_stack) - 1)
               \o <<ChildCall(call, RightObjs(build_objects, call.object_idxs, ax)),
                    ChildCall(call, LeftObjs(build_objects, call.object_idxs, ax))>>
    /\ UNCHANGED <<build_pc, build_objects, build_leaves, notBuild>>

\* the call has the arguments of the call three levels up: the recursion
\* goes on until the stack of the thread is used up
BuildOverflow ==
    /\ build_pc = "building"
    /\ LET call == build_stack[Len(build_stack)] IN
        /\ Len(call.object_idxs) >= MIN_OBJECTS_IN_LEAF
        /\ call.same = 3
    /\ build_pc' = "overflow"
    /\ UNCHANGED <<build_objects, build_stack, build_leaves, notBuild>>

BuildNext == BuildFromObjects \/ BuildLeaf \/ BuildBranch \/ BuildOverflow

(***************************************************************************)
(* Octant::new as the calls it makes (octree.rs:39-93)                     *)
(*                                                                         *)
(*   oct_call    the arguments of Octree::new                              *)
(*   oct_stack   the calls of Octant::new still to run, the next one last: *)
(*               bbox, objects, cur_depth, and same, which says that bbox  *)
(*               and objects are those of the enclosing call               *)
(*   oct_made    what the calls run so far did: the depth, the members     *)
(*               given, whether a leaf was returned and the members kept   *)
(* A call below max_depth whose bbox and objects are those of its caller   *)
(* makes the same call again (cur_depth never meets max_depth again): the  *)
(* recursion never returns and the thread runs out of stack.               *)
(***************************************************************************)
\* root boxes that are one point: in a pool primitive, and in none
PointBoxes == { AABBoxNew(Zero3, Zero3), AABBoxNew(<<3, 3, 3>>, <<3, 3, 3>>) }

\* the root boxes given with a max_depth: the octants of a point box are
\* exact at every depth, those of the other boxes down to MaxOctDepth
RootBoxesFor(max_depth) ==
    IF max_depth = 0 THEN PointBoxes ELSE RootBoxes \cup PointBoxes

NoCall == [objects |-> <<>>, max_depth |-> 0, max_objects_in_leaf |-> 0,
           bbox |-> AABBoxNew(Zero3, Zero3)]

OctantIdle ==
    /\ oct_pc = "idle"
    /\ oct_call = NoCall
    /\ oct_stack = <<>>
    /\ oct_made = <<>>

OctantInit ==
    /\ oct_pc = "args"
    /\ \E objs \in Scenes, d \in 0..MaxOctDepth, m \in LeafThresholds :
         \E b \in RootBoxesFor(d) :
            oct_call = [objects |-> objs, max_depth |-> d,
                        max_objects_in_leaf |-> m, bbox |-> b]
    /\ oct_stack = <<>>
    /\ oct_made = <<>>

\* Octree::new calls Octant::new with cur_depth = 1 (octree.rs:26-33)
OctreeNewCall ==
    /\ oct_pc = "args"
    /\ oct_pc' = "building"
    /\ oct_stack' = <<[bbox |-> oct_call.bbox, objects |-> oct_call.objects,
                       cur_depth |-> 1, same |-> FALSE]>>
    /\ UNCHANGED <<oct_call, oct_made, notOctant>>

\* the test of octree.rs:47
IsLeafCall(call) ==
    \/ call.cur_depth = oct_call.max_depth
    \/ Len(call.objects) <= oct_call.max_objects_in_leaf

\* the members pushed to the i-th child (octree.rs:68-74)
ObjectsInChild(call, i) ==
    SelectSeq(call.objects,
              LAMBDA obj : IntersectOther(Octants(call.bbox)[i], Bounds(obj)))

\* the calls of octree.rs:76-86, the one of the first child last
RECURSIVE ChildCalls(_, _)
ChildCalls(call, i) ==
    IF i > 8 THEN <<>>
    ELSE ChildCalls(call, i + 1) \o
         (IF ObjectsInChild(call, i) # <<>>
            THEN <<[bbox |-> Octants(call.bbox)[i],
                    objects |-> ObjectsInChild(call, i),
                    cur_depth |-> call.cur_depth + 1,
                    same |-> /\ Octants(call.bbox)[i] = call.bbox
                             /\ ObjectsInChild(call, i) = call.objects]>>
            ELSE <<>>)

\* the call cannot return: it is not a leaf, it repeats its caller and
\* cur_depth is past max_depth
RecursForever(call) ==
    /\ ~IsLeafCall(call)
    /\ call.same
    /\ call.cur_depth > oct_call.max_depth

\* the call returns a leaf with the members given (octree.rs:47-53)
OctantLeaf ==
    /\ oct_pc = "building"
    /\ LET call == oct_stack[Len(oct_stack)] IN
        /\ IsLeafCall(call)
        /\ oct_made' = Append(oct_made,
              [cur_depth |-> call.cur_depth, given |-> call.objects,
               leaf |-> TRUE, objects |-> call.objects])
        /\ oct_stack' = SubSeq(oct_stack, 1, Len(oct_stack) - 1)
        /\ oct_pc' = IF Len(oct_stack) = 1 THEN "returned" ELSE "building"
    /\ UNCHANGED <<oct_call, notOctant>>

\* the call splits its box and calls Octant::new for every child that has
\* members (octree.rs:55-92)
OctantSplit ==
    /\ oct_pc = "building"
    /\ LET call == oct_stack[Len(oct_stack)]
           rest == SubSeq(oct_stack, 1, Len(oct_stack) - 1) \o ChildCalls(call, 1)
       IN
        /\ ~IsLeafCall(call)
        /\ ~RecursForever(call)
        /\ oct_made' = Append(oct_made,
              [cur_depth |-> call.cur_depth, given |-> call.objects,
               leaf |-> FALSE, objects |-> <<>>])
        /\ oct_stack' = rest
        /\ oct_pc' = IF rest = <<>> THEN "returned" ELSE "building"
    /\ UNCHANGED <<oct_call, notOctant>>

OctantOverflow ==
    /\ oct_pc = "building"
    /\ RecursForever(oct_stack[Len(oct_stack)])
    /\ oct_pc' = "overflow"
    /\ UNCHANGED <<oct_call, oct_stack, oct_made, notOctant>>

OctantNext == OctreeNewCall \/ OctantLeaf \/ OctantSplit \/ OctantOverflow

(***************************************************************************)
(* AABBox::intersect_other as a state machine: two boxes, then the answer  *)
(* in both orders.  The fields of AABBox are public, so a box is any pair  *)
(* of corners, min <= max or not.                                          *)
(*   boxpc       "idle", "start" (two boxes chosen), "done"                *)
(*   boxA, boxB  the boxes                                                 *)
(*   overAB      boxA.intersect_other(&boxB)                               *)
(*   overBA      boxB.intersect_other(&boxA)                               *)
(***************************************************************************)
MaxCoord == 2

\* the corners: x and y in 0..MaxCoord, z in 0..1
Corners == {c \in [Axes -> 0..MaxCoord] : c[3] <= 1}
Boxes == [min : Corners, max : Corners]

BoxIdle ==
    /\ boxpc = "idle"
    /\ boxA = AABBoxNew(Zero3, Zero3)
    /\ boxB = AABBoxNew(Zero3, Zero3)
    /\ overAB = FALSE
    /\ overBA = FALSE

BoxInit ==
    /\ boxpc = "start"
    /\ boxA \in Boxes
    /\ boxB \in Boxes
    /\ overAB = FALSE
    /\ overBA = FALSE

\* boxA.intersect_other(&boxB) and boxB.intersect_other(&boxA)
BoxIntersectOther ==
    /\ boxpc = "start"
    /\ overAB' = IntersectOther(boxA, boxB)
    /\ overBA' = IntersectOther(boxB, boxA)
    /\ boxpc' = "done"
    /\ UNCHANGED <<notBox, boxA, boxB>>

BoxNext == BoxIntersectOther

(***************************************************************************)
(* RayIterator (camera.rs:82-180)                                          *)
(*   iter    the fields of the iterator that next() reads and writes:      *)
(*           x_res, y_res, samples_per_pixel, x, y, cur_sample             *)
(*   items   what the calls of next() so far returned, in order: None, or  *)
(*           Some of the pixel (x, y); the ray of the item is a random     *)
(*           direction through the pixel and is left out                   *)
(* The calls go on after the first None, twice here.                       *)
(***************************************************************************)
NoIter == [x_res |-> 0, y_res |-> 0, samples_per_pixel |-> 0,
           x |-> 0, y |-> 0, cur_sample |-> 0]

RaysIdle ==
    /\ rays_pc = "idle"
    /\ iter = NoIter
    /\ items = <<>>

\* RayIterator::new (camera.rs:131-142), called by Camera::rays
RaysInit ==
    /\ rays_pc = "iterating"
    /\ \E xr \in 0..MaxXRes, yr \in 0..MaxYRes, spp \in 0..MaxSamples :
         iter = [x_res |-> xr, y_res |-> yr, samples_per_pixel |-> spp,
                 x |-> 0, y |-> 0, cur_sample |-> 0]
    /\ items = <<>>

SomePixel(x, y) == [some |-> TRUE, x |-> x, y |-> y]

NonesReturned == Cardinality({k \in DOMAIN items : ~items[k].some})

\* camera.rs:152-154: past the last row
RaysNextNone ==
    /\ rays_pc = "iterating"
    /\ iter.y >= iter.y_res
    /\ NonesReturned < 2
    /\ items' = Append(items, None)
    /\ UNCHANGED <<rays_pc, iter, notRays>>

\* camera.rs:164-166, 178: another sample of the pixel
RaysNextSample ==
    /\ rays_pc = "iterating"
    /\ iter.y < iter.y_res
    /\ ~(iter.cur_sample > iter.samples_per_pixel)
    /\ iter' = [iter EXCEPT !.cur_sample = iter.cur_sample + 1]
    /\ items' = Append(items, SomePixel(iter.x, iter.y))
    /\ UNCHANGED <<rays_pc, notRays>>

\* camera.rs:156-163, 178: the iterator moves to the next pixel and the
\* item is the pixel it leaves
RaysNextPixel ==
    /\ rays_pc = "iterating"
    /\ iter.y < iter.y_res
    /\ iter.cur_sample > iter.samples_per_pixel
    /\ iter.x_res > 0
    /\ iter' = IF iter.x = iter.x_res - 1
                 THEN [iter EXCEPT !.cur_sample = 0, !.x = 0, !.y = iter.y + 1]
                 ELSE [iter EXCEPT !.cur_sample = 0, !.x = iter.x + 1]
    /\ items' = Append(items, SomePixel(iter.x, iter.y))
    /\ UNCHANGED <<rays_pc, notRays>>

\* camera.rs:158 with x_res = 0: self.x_res - 1 overflows; with overflow
\* checks (debug builds) next() panics
RaysNextOverflowPanic ==
    /\ rays_pc = "iterating"
    /\ iter.y < iter.y_res
    /\ iter.cur_sample > iter.samples_per_pixel
    /\ iter.x_res = 0
    /\ rays_pc' = "panicked"
    /\ UNCHANGED <<iter, items, notRays>>

\* camera.rs:158 with x_res = 0, without overflow checks (release builds):
\* x_res - 1 wraps to usize::MAX, which x does not equal, and x advances;
\* the model follows x up to MaxXRes
RaysNextOverflowWrap ==
    /\ rays_pc = "iterating"
    /\ iter.y < iter.y_res
    /\ iter.cur_sample > iter.samples_per_pixel
    /\ iter.x_res = 0
    /\ iter.x <= MaxXRes
    /\ iter' = [iter EXCEPT !.cur_sample = 0, !.x = iter.x + 1]
    /\ items' = Append(items, SomePixel(iter.x, iter.y))
    /\ UNCHANGED <<rays_pc, notRays>>

RaysNext ==
    \/ RaysNextNone
    \/ RaysNextSample
    \/ RaysNextPixel
    \/ RaysNextOverflowPanic
    \/ RaysNextOverflowWrap

(***************************************************************************)
(* AABBox::octants as a state machine (geometry.rs:72-85)                  *)
(*   octs_box   the box                                                    *)
(*   octs_out   what the calls of octs_box.octants() made so far returned  *)
(***************************************************************************)
\* boxes with min <= max and even coordinates: the middle is a whole number
EvenBoxes == {AABBoxNew(Mul(2, a), Mul(2, b)) : a \in Corners, b \in Corners}

OctsIdle ==
    /\ octs_box = AABBoxNew(Zero3, Zero3)
    /\ octs_out = <<>>

OctsInit ==
    /\ octs_box \in EvenBoxes
    /\ octs_out = <<>>

\* one call of octants(); the box is not changed by it (&self)
OctsCall ==
    /\ Len(octs_out) < 2
    /\ octs_out' = Append(octs_out, Octants(octs_box))
    /\ UNCHANGED <<octs_box, notOcts>>

OctsNext == OctsCall

(***************************************************************************)
(* AABBox::intersect as a state machine (geometry.rs:98-154)               *)
(*   slab_box, slab_ray   the box and the ray                              *)
(*   slab_hit             whether self.intersect(ray) returned Some        *)
(***************************************************************************)
\* origins before, inside and past the boxes on each axis
SlabOrigins == [Axes -> {-1, 1, MaxCoord + 1}]

SlabIdle ==
    /\ slab_pc = "idle"
    /\ slab_box = AABBoxNew(Zero3, Zero3)
    /\ slab_ray = NoRay
    /\ slab_hit = FALSE

SlabInit ==
    /\ slab_pc = "args"
    /\ slab_box \in Boxes
    /\ slab_ray \in [origin : SlabOrigins, dir : RayDirs]
    /\ slab_hit = FALSE

SlabIntersect ==
    /\ slab_pc = "args"
    /\ slab_hit' = AABBoxHit(slab_box, slab_ray)
    /\ slab_pc' = "called"
    /\ UNCHANGED <<slab_box, slab_ray, notSlab>>

SlabNext == SlabIntersect

(***************************************************************************)
(* Sphere (sphere.rs)                                                      *)
(*                                                                         *)
(* A ray is [origin, dir] with dir an integer vector D along the code's    *)
(* unit direction D / |D|.  With oc = origin - center, B = D . oc,         *)
(* n = D . D and c = |oc|^2 - radius^2, the code's delta is                *)
(* (4 B^2 - 4 n c) / n and its roots are (-B + sqrt(B^2 - n c)) / sqrt(n)  *)
(* and (-B - sqrt(B^2 - n c)) / sqrt(n): their signs are decided exactly   *)
(* by comparing squares.                                                   *)
(***************************************************************************)
\* Sphere::new (sphere.rs:13-18)
SphereNew(center, radius) == [center |-> center, radius |-> radius]

Sign(x) == IF x > 0 THEN 1 ELSE IF x < 0 THEN -1 ELSE 0

\* ray.dir.dot(ray.origin - s.center), times |D|
DirDotOc(s, r) == Dot(r.dir, Sub(r.origin, s.center))

\* (ray.origin - s.center).length_squared() - s.radius * s.radius
OcTerm(s, r) ==
    Dot(Sub(r.origin, s.center), Sub(r.origin, s.center)) - s.radius * s.radius

\* a mutant of Delta: the factor 4 of the second term is left out
DeltaNoFour(s, r) ==
    4 * DirDotOc(s, r) * DirDotOc(s, r) - Dot(r.dir, r.dir) * OcTerm(s, r)

\* delta (sphere.rs:23-26), times n = D . D
Delta(s, r) ==
    4 * DirDotOc(s, r) * DirDotOc(s, r) - 4 * Dot(r.dir, r.dir) * OcTerm(s, r)

\* the sign of d1 = (p + q) / 2 (sphere.rs:34-37), for delta > 0:
\* -B + sqrt(B^2 - n c) is positive when B <= 0, else it has the sign of -c
D1Sign(s, r) ==
    IF DirDotOc(s, r) <= 0 THEN 1 ELSE Sign(-OcTerm(s, r))

\* the sign of d2 = (p - q) / 2 (sphere.rs:38), for delta > 0:
\* -B - sqrt(B^2 - n c) is negative when B >= 0, else it has the sign of c
D2Sign(s, r) ==
    IF DirDotOc(s, r) >= 0 THEN -1 ELSE Sign(OcTerm(s, r))

\* Sphere::intersect (sphere.rs:22-66): None, or the root used as d (1 for
\* d1, 2 for d2) and the sign of d; d1.min(d2) is d2, for d1 - d2 = q > 0
SphereIntersect(s, r) ==
    LET d1 == D1Sign(s, r)
        d2 == D2Sign(s, r)
        root == IF d1 > 0 /\ d2 < 0 THEN 1
                ELSE IF d1 < 0 /\ d2 > 0 THEN 2
                ELSE 2
    IN IF Delta(s, r) <= 0 THEN None
       ELSE IF d1 < 0 /\ d2 < 0 THEN None
       ELSE [some |-> TRUE, root |-> root, dsign |-> IF root = 1 THEN d1 ELSE d2]

(***************************************************************************)
(* Sphere::intersect as a state machine: a sphere and a ray, then the      *)
(* answer.                                                                 *)
(*   sphpc   "idle", "start" (sphere and ray chosen), "done"               *)
(*   sphere  the sphere                                                    *)
(*   sray    the ray                                                       *)
(*   shit    what intersect returned                                       *)
(***************************************************************************)
MaxRadius == 2

\* centers: the origin, and the sphere of test_intersect (sphere.rs:92) in
\* units of 1/2
Centers == {Zero3, <<0, 0, 6>>}
Spheres == {SphereNew(c, rad) : c \in Centers, rad \in 1..MaxRadius}

SphereOrigins == [Axes -> -2..2]

\* the 26 grid directions and the two directions of test_intersect
\* (sphere.rs:88, 90) in units of 1/100
SphereDirs == RayDirs \cup {<<0, 51, 300>>, <<0, 49, 300>>}

SphereIdle ==
    /\ sphpc = "idle"
    /\ sphere = SphereNew(Zero3, 0)
    /\ sray = NoRay
    /\ shit = None

\* the ray has one of the directions above, or is aimed at the center
SphereInit ==
    /\ sphpc = "start"
    /\ sphere \in Spheres
    /\ \E o \in SphereOrigins :
         \E d \in SphereDirs \cup ({Sub(sphere.center, o)} \ {Zero3}) :
            sray = [origin |-> o, dir |-> d]
    /\ shit = None

\* sphere.intersect(sray)
SphereShoot ==
    /\ sphpc = "start"
    /\ shit' = SphereIntersect(sphere, sray)
    /\ sphpc' = "done"
    /\ UNCHANGED <<notSphere, sphere, sray>>

SphereNext == SphereShoot

(***************************************************************************)
(* Triangle as a state machine: a triangle is made by Triangle::new, may   *)
(* be replaced by its opposite, and a ray is traced against it.            *)
(*   tripc     "idle", "start", "made" (Triangle::new returned),           *)
(*             "flipped" (triangle is tri0.opposite()), "shot" (a ray was  *)
(*             traced)                                                     *)
(*   tri0      what Triangle::new returned                                 *)
(*   triangle  the triangle in use                                         *)
(*   tray      the ray                                                     *)
(*   thit      triangle.intersect(tray)                                    *)
(*   tback     triangle.intersect of the ray that comes back along the     *)
(*             line of tray from Span steps further on                     *)
(***************************************************************************)
Span == 4

\* the triangle of correct_calc_of_normal (triangle.rs:146-150), larger
\* right triangles in the same plane and a slanted one
Vertices == {<<0, 0, 0>>, <<1, 0, 0>>, <<0, 1, 0>>,
             <<3, 0, 0>>, <<0, 3, 0>>, <<0, 0, 3>>}

TriOrigins == {<<1, 1, -2>>, <<1, 1, 2>>, <<0, 0, 0>>, <<1, 1, 1>>,
               <<-1, -1, -1>>, <<3, 3, 1>>}
TriRays == [origin : TriOrigins, dir : RayDirs]

NoTri == [kind |-> "triangle", a |-> Zero3, b |-> Zero3, c |-> Zero3, normal |-> Zero3]

\* the ray along the same line in the opposite direction, from Span steps
\* beyond the origin
Reverse(r) == [origin |-> Add(r.origin, Mul(Span, r.dir)), dir |-> Neg(r.dir)]

TriIdle ==
    /\ tripc = "idle"
    /\ triangle = NoTri
    /\ tri0 = NoTri
    /\ tray = NoRay
    /\ thit = None
    /\ tback = None

TriInit ==
    /\ tripc = "start"
    /\ triangle = NoTri
    /\ tri0 = NoTri
    /\ tray = NoRay
    /\ thit = None
    /\ tback = None

\* Triangle::new(a, b, c)
TriangleCreate ==
    /\ tripc = "start"
    /\ \E a \in Vertices, b \in Vertices, c \in Vertices :
         /\ tri0' = TriangleNew(a, b, c)
         /\ triangle' = TriangleNew(a, b, c)
    /\ tripc' = "made"
    /\ UNCHANGED <<notTri, tray, thit, tback>>

\* triangle.opposite()
TriangleFlip ==
    /\ tripc = "made"
    /\ triangle' = TriangleOpposite(triangle)
    /\ tripc' = "flipped"
    /\ UNCHANGED <<notTri, tri0, tray, thit, tback>>

\* triangle.intersect(ray), and triangle.intersect of the ray coming back
TriangleShoot ==
    /\ tripc \in {"made", "flipped"}
    /\ \E r \in TriRays :
         /\ tray' = r
         /\ thit' = TriangleIntersect(triangle, r)
         /\ tback' = TriangleIntersect(triangle, Reverse(r))
    /\ tripc' = "shot"
    /\ UNCHANGED <<notTri, triangle, tri0>>

TriNext ==
    \/ TriangleCreate
    \/ TriangleFlip
    \/ TriangleShoot

(***************************************************************************)
(* Specifications                                                          *)
(***************************************************************************)
RenderIdle ==
    /\ x_res = 0 /\ y_res = 0 /\ num_threads = 0 /\ samples_per_pixel = 1
    /\ scene_objects = 0
    /\ rpc = "idle"
    /\ y_block_size = 0
    /\ pixels_rendered = 0
    /\ kd_built = FALSE
    /\ workers = <<>>
    /\ image = <<>>
    /\ counted = {}

\* one call of render, with every interleaving of its threads
AuxIdle == BuildIdle /\ OctantIdle /\ SlabIdle /\ OctsIdle /\ RaysIdle
GeoIdle == BoxIdle /\ SphereIdle /\ TriIdle /\ AuxIdle
InitRender == RenderInit /\ TraceIdle /\ TreeIdle /\ GeoIdle
SpecRender == InitRender /\ [][RenderNext]_vars

\* top-level calls of trace_ray, one after the other
InitTrace == RenderIdle /\ TraceIdle /\ TreeIdle /\ GeoIdle
SpecTrace == InitTrace /\ [][TraceNext]_vars

\* trace_ray runs on one thread, which keeps executing
SpecTraceFair == SpecTrace /\ WF_vars(TraceNext)

\* a k-d tree over a scene, and rays against it
InitKd == RenderIdle /\ TraceIdle /\ TreeInit /\ GeoIdle
SpecKdTree == InitKd /\ [][KdNext]_vars

\* an octree over a scene, and rays against it
InitOct == RenderIdle /\ TraceIdle /\ TreeInit /\ GeoIdle
SpecOctree == InitOct /\ [][OctNext]_vars

\* a k-d tree with a Branch, over a row of triangles, and rays against it
InitKdRows == RenderIdle /\ TraceIdle /\ RowInit /\ GeoIdle
SpecKdRows == InitKdRows /\ [][KdNext]_vars

\* a k-d tree over a collection of any size of the model
InitKdAnySize == RenderIdle /\ TraceIdle /\ AnySizeInit /\ GeoIdle
SpecKdAnySize == InitKdAnySize /\ [][KdNext]_vars

\* from_objects, one call of build_node at a time
MainIdle == RenderIdle /\ TraceIdle /\ TreeIdle /\ BoxIdle /\ SphereIdle /\ TriIdle
InitKdBuild == MainIdle /\ BuildInit /\ OctantIdle /\ SlabIdle /\ OctsIdle /\ RaysIdle
SpecKdBuild == InitKdBuild /\ [][BuildNext]_vars
SpecKdBuildFair == SpecKdBuild /\ WF_vars(BuildNext)

\* Octree::new, one call of Octant::new at a time
InitOctant == MainIdle /\ BuildIdle /\ OctantInit /\ SlabIdle /\ OctsIdle /\ RaysIdle
SpecOctant == InitOctant /\ [][OctantNext]_vars
SpecOctantFair == SpecOctant /\ WF_vars(OctantNext)

\* AABBox::intersect on every box and ray
InitSlab == MainIdle /\ BuildIdle /\ OctantIdle /\ SlabInit /\ OctsIdle /\ RaysIdle
SpecSlab == InitSlab /\ [][SlabNext]_vars

\* AABBox::octants on every box, twice
InitOcts == MainIdle /\ BuildIdle /\ OctantIdle /\ SlabIdle /\ OctsInit /\ RaysIdle
SpecOctants == InitOcts /\ [][OctsNext]_vars

\* Camera::rays and the calls of next() on the iterator
InitRays == MainIdle /\ BuildIdle /\ OctantIdle /\ SlabIdle /\ OctsIdle /\ RaysInit
SpecRays == InitRays /\ [][RaysNext]_vars

\* intersect_other on every pair of boxes
InitBox == RenderIdle /\ TraceIdle /\ TreeIdle /\ BoxInit /\ SphereIdle /\ TriIdle /\ AuxIdle
SpecBox == InitBox /\ [][BoxNext]_vars

\* Sphere::intersect on every sphere and ray
InitSphere == RenderIdle /\ TraceIdle /\ TreeIdle /\ BoxIdle /\ SphereInit /\ TriIdle /\ AuxIdle
SpecSphere == InitSphere /\ [][SphereNext]_vars

\* a triangle, its opposite, and rays against them
InitTri == RenderIdle /\ TraceIdle /\ TreeIdle /\ BoxIdle /\ SphereIdle /\ TriInit /\ AuxIdle
SpecTriangle == InitTri /\ [][TriNext]_vars

(***************************************************************************)
(* Properties of render                                                    *)
(***************************************************************************)
\* the band a pixel lies in when the rows divide evenly
BandOf(p) == (p \div x_res) \div (y_res \div num_threads)

RowsDivide == num_threads >= 1 /\ y_res >= 1 /\ y_res % num_threads = 0

\* C1: no element of the image buffer is written by more than one worker,
\* for every x_res, y_res, num_threads and every interleaving
C1_DisjointWrites == \A p \in DOMAIN image : Cardinality(image[p].by) <= 1

\* two workers have both written, each its own pixels
C1_Witness ==
    /\ rpc = "returned"
    /\ \E p, q \in DOMAIN image : image[p].by = {0} /\ image[q].by = {1}

C3_PanicIsFatal ==
    (\E i \in WorkerIds : workers[i].pc = "panicked") => rpc /= "returned"

\* the pixels whose samples have all been accumulated
FullPixels == {p \in DOMAIN image : image[p].acc = samples_per_pixel}

\* the pixels of the loop positions whose fetch_add has executed
CountedPixels == {ChunkBase(c[1]) + c[2] * x_res + c[3] : c \in counted}

\* the workers between the last accumulation of a pixel and its fetch_add
Uncounted == {i \in WorkerIds : InLoops(workers[i]) /\ workers[i].s = samples_per_pixel}

\* C9 as stated: in every reachable state the counter equals the number of
\* pixels whose samples have all been accumulated, it never exceeds
\* x_res * y_res and equals it once render has returned (y_res a multiple
\* of num_threads)
C9_CounterIsAccumulated ==
    /\ pixels_rendered = Cardinality(FullPixels)
    /\ pixels_rendered <= x_res * y_res
    /\ (rpc = "returned" /\ RowsDivide) => pixels_rendered = x_res * y_res

\* C9 amended: the counter equals the number of pixels whose fetch_add has
\* executed, once per pixel; each of them has all its samples accumulated,
\* and the fully accumulated pixels are these and one per worker that stands
\* between its pixel's last accumulation and the fetch_add; the counter
\* never decreases, never exceeds x_res * y_res and equals it once render
\* has returned (y_res a multiple of num_threads)
C9_CounterInv ==
    /\ pixels_rendered = Cardinality(counted)
    /\ Cardinality(CountedPixels) = Cardinality(counted)
    /\ CountedPixels \subseteq FullPixels
    /\ Cardinality(FullPixels) = pixels_rendered + Cardinality(Uncounted)
    /\ pixels_rendered <= x_res * y_res
    /\ (rpc = "returned" /\ RowsDivide) => pixels_rendered = x_res * y_res

C9_CounterLagsAccumulation ==
    /\ []C9_CounterInv
    /\ [][pixels_rendered' >= pixels_rendered]_vars

\* a pixel is fully accumulated and not yet counted while another is counted
C9_Witness ==
    /\ pixels_rendered >= 1
    /\ Uncounted /= {}
    /\ samples_per_pixel = 2

\* C10: the k-d tree is built before any worker exists, workers are spawned
\* only inside the scope, one per chunk, no worker is active outside the
\* scope, and every spawned worker has terminated when render returns
C10_ScopedForkJoin ==
    /\ Len(workers) > 0 => kd_built
    /\ Len(workers) > 0 => Len(workers) <= NumChunks
    /\ (\E i \in WorkerIds : Active(i)) => rpc \in {"spawn", "join"}
    /\ rpc \in {"join", "returned"} => Len(workers) = NumChunks
    /\ rpc \in {"returned", "panicked"} => \A i \in WorkerIds : Terminated(i)

\* render has returned after three workers, one of which panicked
C10_Witness ==
    /\ rpc = "returned"
    /\ Len(workers) = 3
    /\ \E i \in WorkerIds : workers[i].pc = "panicked"

(***************************************************************************)
(* Properties of trace_ray                                                 *)
(***************************************************************************)
\* 0.98^k in the unit of ret
Frac(k) == Pow(Decay, k) * Pow(100, MaxSteps - k)

\* the recursion of the suspended invocations: each recursed with more than
\* one step left and passed one step less
C6_Recursion ==
    /\ calls <= Max(steps0, 1)
    /\ cur.remaining_steps >= 0
    /\ \A i \in DOMAIN stack :
         /\ stack[i].remaining_steps > 1
         /\ stack[i].remaining_steps = steps0 - (i - 1)
    /\ tpc \in {"enter", "found"} => cur.remaining_steps = steps0 - Len(stack)

\* C6: trace_ray terminates for every remaining_steps n >= 0 and every
\* scene: it recurses only when remaining_steps > 1 and passes
\* remaining_steps - 1, one top-level call makes at most max(n, 1)
\* invocations, remaining_steps never underflows, and every call returns
C6_Terminates ==
    /\ []C6_Recursion
    /\ (tpc = "enter") ~> (tpc = "done")

\* a call with n = 3 has returned after 3 invocations
C6_Witness == tpc = "done" /\ steps0 = 3 /\ calls = 3

\* a light is hit nearer than the object set's hit, if any
LightNearest(vec) ==
    \E i \in DOMAIN vec :
       /\ vec[i][2]
       /\ \A j \in DOMAIN vec : ~vec[j][2] => vec[i][1] < vec[j][1]

\* the innermost invocation has just returned: cur holds its vec
InnermostReturned == tpc = "returned" /\ Len(stack) = calls - 1

\* C7: an invocation whose nearest hit is a light returns exactly 1.0,
\* whatever remaining_steps is; one that hits nothing returns exactly 0.0
\* (only the innermost invocation of a path can be either)
C7_LightOrNothing ==
    InnermostReturned =>
        /\ LightNearest(cur.vec) => ret = One
        /\ cur.vec = <<>> => ret = 0

\* with no step left, a light in front of an object has returned 1.0
C7_Witness ==
    /\ InnermostReturned
    /\ cur.remaining_steps = 0
    /\ Len(cur.vec) >= 2
    /\ ~cur.vec[1][2]
    /\ LightNearest(cur.vec)
    /\ ret = One

\* the object hits of the path of the top-level call: its bounces, and the
\* last hit if that was an object
ObjectHits == (calls - 1) + (IF leaf = "object" THEN 1 ELSE 0)

\* C8 as stated: a path that reaches a light after k object bounces with
\* k < remaining_steps yields 0.98^k, and a path with remaining_steps or
\* more object bounces yields 0
C8_PathValue ==
    tpc = "done" =>
        /\ (leaf = "light" /\ calls - 1 < steps0) => ret = Frac(calls - 1)
        /\ ObjectHits >= steps0 => ret = 0

\* C8 amended: an invocation whose nearest hit is an object returns 0.98
\* times what its recursive call returned if remaining_steps > 1 and 0
\* otherwise, so the invocation at depth d of a path that ends on a light
\* after k bounces returns 0.98^(k - d) and every invocation of another path
\* returns 0; a top-level call yields 0.98^k when a light is reached after
\* k < max(remaining_steps, 1) bounces and 0 when the path has
\* max(remaining_steps, 1) or more object hits
C8_PathValueFromOneStep ==
    /\ tpc \in {"returned", "done"} =>
          /\ ret = (IF leaf = "light" THEN Frac(calls - 1 - Len(stack)) ELSE 0)
          /\ (/\ InnermostReturned
              /\ \E i \in DOMAIN cur.vec : ~cur.vec[i][2]
              /\ ~LightNearest(cur.vec)) => (cur.remaining_steps <= 1 /\ ret = 0)
    /\ tpc = "done" =>
          /\ (leaf = "light" /\ calls - 1 < Max(steps0, 1)) => ret = Frac(calls - 1)
          /\ ObjectHits >= Max(steps0, 1) => ret = 0

\* a light was reached after two bounces
C8_Witness == tpc = "done" /\ leaf = "light" /\ calls = 3 /\ ret = Frac(2)

(***************************************************************************)
(* Properties of the partitioners                                          *)
(***************************************************************************)
\* brute force: the hits of the primitives
PrimHits == FilterHits([i \in DOMAIN objects |-> Intersect(objects[i], ray)])

\* hit is what brute force gives: no hit iff no primitive is hit, else a
\* primitive's hit that no other is nearer than
SameAsBruteForce ==
    /\ hit.some <=> PrimHits /= <<>>
    /\ hit.some =>
         /\ \E i \in DOMAIN PrimHits : PrimHits[i] = hit
         /\ \A i \in DOMAIN PrimHits : ~DistLess(PrimHits[i], hit)

BoxContains(outer, inner) ==
    \A i \in Axes : outer.min[i] <= inner.min[i] /\ inner.max[i] <= outer.max[i]

\* C4: a KdTree over fewer primitives than the leaf threshold answers every
\* ray as brute force does
C4_KdTreeAsBruteForce ==
    (ppc = "queried" /\ kdtree /= NoTree /\ Len(objects) < MIN_OBJECTS_IN_LEAF)
        => SameAsBruteForce

\* the ray hits two primitives, the second of the collection first
C4_Witness ==
    /\ ppc = "queried" /\ kdtree /= NoTree
    /\ Len(PrimHits) = 2
    /\ DistLess(PrimHits[2], PrimHits[1])
    /\ hit = PrimHits[2]

C14_IntersectOtherSymmetric == boxpc = "done" => overAB = overBA

\* two boxes that overlap on x and y and are apart on z, asked both ways
C14_Witness ==
    /\ boxpc = "done"
    /\ boxA /= boxB
    /\ boxA.max[3] < boxB.min[3]
    /\ boxA.min[1] < boxB.min[1] /\ boxB.min[1] < boxA.max[1]
    /\ ~overAB /\ ~overBA

WellFormedBox(b) == \A i \in Axes : b.min[i] <= b.max[i]

\* the closed intervals of the two boxes on axis i share a point
SharePoint(a, b, i) ==
    \E x \in 0..MaxCoord : /\ a.min[i] <= x /\ x <= a.max[i]
                           /\ b.min[i] <= x /\ x <= b.max[i]

\* every corner of a lies in b
Inside(a, b) == \A i \in Axes : b.min[i] <= a.min[i] /\ a.max[i] <= b.max[i]

\* a corner of a box of corners lo, hi: each coordinate is lo's or hi's
CornersOf(b) == {c \in [Axes -> 0..MaxCoord] : \A i \in Axes : c[i] \in {b.min[i], b.max[i]}}
HoldsPoint(b, c) == \A i \in Axes : b.min[i] <= c[i] /\ c[i] <= b.max[i]

\* C15: for boxes with min <= max on every axis, intersect_other is true
\* iff on each axis the closed intervals of the two boxes overlap: a box
\* inside another overlaps it, boxes that only touch overlap, and boxes
\* separated along one axis do not
C15_IntersectOtherIsOverlap ==
    (boxpc = "done" /\ WellFormedBox(boxA) /\ WellFormedBox(boxB)) =>
        /\ overAB <=> \A i \in Axes : SharePoint(boxA, boxB, i)
        /\ Inside(boxA, boxB) => overAB
        /\ (\E i \in Axes : boxA.max[i] < boxB.min[i] \/ boxB.max[i] < boxA.min[i])
               => ~overAB

\* two boxes that cross with no corner of one inside the other, and touch
\* on z only
C15_Witness ==
    /\ boxpc = "done" /\ WellFormedBox(boxA) /\ WellFormedBox(boxB)
    /\ \A c \in CornersOf(boxA) : ~HoldsPoint(boxB, c)
    /\ \A c \in CornersOf(boxB) : ~HoldsPoint(boxA, c)
    /\ boxA.max[3] = boxB.min[3] /\ boxA.min[3] < boxB.max[3]
    /\ overAB

(***************************************************************************)
(* Properties of Sphere::intersect                                         *)
(***************************************************************************)
\* C16: whenever Sphere::intersect returns a hit, the d it uses is not
\* negative and is the root the policy names: the only non-negative root if
\* there is exactly one, else the minimum of the two (d2); with both roots
\* negative there is no hit
C16_RootPolicy ==
    (sphpc = "done" /\ Delta(sphere, sray) > 0) =>
        LET d1 == D1Sign(sphere, sray)
            d2 == D2Sign(sphere, sray)
            policy == IF d1 >= 0 /\ d2 < 0 THEN 1
                      ELSE IF d2 >= 0 /\ d1 < 0 THEN 2
                      ELSE 2
        IN /\ (d1 < 0 /\ d2 < 0) => ~shit.some
           /\ shit.some => (shit.dsign >= 0 /\ shit.root = policy)

\* n times the squared distance of the center from the line of the ray,
\* and n times the squared radius, n = D . D
LineDist2(s, r) ==
    Dot(r.dir, r.dir) * Dot(Sub(r.origin, s.center), Sub(r.origin, s.center))
      - Dot(r.dir, Sub(s.center, r.origin)) * Dot(r.dir, Sub(s.center, r.origin))
Radius2(s, r) == Dot(r.dir, r.dir) * s.radius * s.radius

\* the ray points from its origin to the center
AimedAtCenter(s, r) ==
    /\ Cross(r.dir, Sub(s.center, r.origin)) = Zero3
    /\ Dot(r.dir, Sub(s.center, r.origin)) > 0

\* sphere (0,0,3) radius 0.5 in units of 1/2, seen from the origin
TestSphere(s, r) == s = SphereNew(<<0, 0, 6>>, 1) /\ r.origin = Zero3

\* C17: a ray aimed at the center of a sphere hits; a ray whose line passes
\* the center at more than the radius does not; one that passes nearer than
\* the radius with the center ahead of its origin hits (from the origin,
\* sphere (0,0,3) radius 0.5: direction (0,0.51,3) misses, (0,0.49,3)
\* hits); a line at exactly the radius (zero discriminant) gives no hit
C17_SphereHitOrMiss ==
    sphpc = "done" =>
        /\ AimedAtCenter(sphere, sray) => shit.some
        /\ LineDist2(sphere, sray) > Radius2(sphere, sray) => ~shit.some
        /\ LineDist2(sphere, sray) = Radius2(sphere, sray) => ~shit.some
        /\ (/\ LineDist2(sphere, sray) < Radius2(sphere, sray)
            /\ Dot(sray.dir, Sub(sphere.center, sray.origin)) > 0) => shit.some
        /\ (TestSphere(sphere, sray) /\ sray.dir = <<0, 51, 300>>) => ~shit.some
        /\ (TestSphere(sphere, sray) /\ sray.dir = <<0, 49, 300>>) => shit.some

\* the ray of the test that passes just inside the radius has hit
C17_Witness ==
    /\ sphpc = "done"
    /\ TestSphere(sphere, sray)
    /\ sray.dir = <<0, 49, 300>>
    /\ shit.some

(***************************************************************************)
(* Properties of Triangle                                                  *)
(***************************************************************************)
\* the determinant of the matrix of rows u, v, w
Det3(u, v, w) ==
    u[1] * (v[2] * w[3] - v[3] * w[2])
      - u[2] * (v[1] * w[3] - v[3] * w[1])
      + u[3] * (v[1] * w[2] - v[2] * w[1])

\* the three vertices are not on one line
NonDegenerate(t) ==
    \E i, j \in Axes :
       Sub(t.b, t.a)[i] * Sub(t.c, t.a)[j] /= Sub(t.b, t.a)[j] * Sub(t.c, t.a)[i]

\* n is perpendicular to both edges from a, and b - a, c - a, n is a
\* right-handed frame
RightHandRule(t) ==
    /\ Dot(t.normal, Sub(t.b, t.a)) = 0
    /\ Dot(t.normal, Sub(t.c, t.a)) = 0
    /\ Det3(Sub(t.b, t.a), Sub(t.c, t.a), t.normal) > 0

\* C18: Triangle::new(a, b, c) stores the normal along (b - a) x (c - a),
\* the right-hand rule of the vertex order: (0,0,0),(1,0,0),(0,1,0) gives
\* (0,0,1); swapping two vertices gives the negated normal; opposite()
\* reverses the vertex order and negates the normal, as Triangle::new of
\* the reversed vertices would
C18_NormalRightHanded ==
    /\ (tripc = "made" /\ NonDegenerate(triangle)) =>
          /\ RightHandRule(triangle)
          /\ (triangle.a = <<0, 0, 0>> /\ triangle.b = <<1, 0, 0>> /\ triangle.c = <<0, 1, 0>>)
                => triangle.normal = <<0, 0, 1>>
          /\ TriangleNew(triangle.b, triangle.a, triangle.c).normal = Neg(triangle.normal)
          /\ TriangleNew(triangle.a, triangle.c, triangle.b).normal = Neg(triangle.normal)
          /\ TriangleNew(triangle.c, triangle.b, triangle.a).normal = Neg(triangle.normal)
    /\ (tripc = "flipped" /\ NonDegenerate(tri0)) =>
          /\ triangle.a = tri0.c /\ triangle.b = tri0.b /\ triangle.c = tri0.a
          /\ triangle.normal = Neg(tri0.normal)
          /\ RightHandRule(triangle)

\* the opposite of the triangle (0,0,0),(1,0,0),(0,1,0)
C18_Witness ==
    /\ tripc = "flipped"
    /\ tri0.a = <<0, 0, 0>> /\ tri0.b = <<1, 0, 0>> /\ tri0.c = <<0, 1, 0>>
    /\ triangle.normal = <<0, 0, -1>>

\* the line of r meets the plane of t strictly inside t, for a ray with
\* normal . dir = nd > 0: with w = nd * (p - a) and p the meeting point,
\* the barycentric coordinates u, v of p satisfy u > 0, v > 0, u + v < 1
ThroughInterior(t, r) ==
    LET nd == Dot(t.normal, r.dir)
        num == Dot(Sub(t.a, r.origin), t.normal)
        w == Add(Mul(nd, Sub(r.origin, t.a)), Mul(num, r.dir))
        v0 == Sub(t.c, t.a)
        v1 == Sub(t.b, t.a)
        den == Dot(v0, v0) * Dot(v1, v1) - Dot(v0, v1) * Dot(v0, v1)
        un == Dot(v1, v1) * Dot(v0, w) - Dot(v0, v1) * Dot(v1, w)
        vn == Dot(v0, v0) * Dot(v1, w) - Dot(v0, v1) * Dot(v0, w)
    IN nd > 0 /\ den > 0 /\ un > 0 /\ vn > 0 /\ un + vn < den * nd

\* the point o is on the side of t its normal points to
OnNormalSide(t, o) == Dot(t.normal, Sub(o, t.a)) > 0

\* C19: Triangle::intersect returns no hit for a ray with normal . dir > 0,
\* whatever its origin, even when its line passes through the interior of
\* the triangle; the ray along the same line from the normal's side, with
\* the triangle in front of its origin, hits
C19_BackFaceCulled ==
    (tripc = "shot" /\ NonDegenerate(triangle)) =>
        /\ Dot(triangle.normal, tray.dir) > 0 => ~thit.some
        /\ (/\ ThroughInterior(triangle, tray)
            /\ OnNormalSide(triangle, Reverse(tray).origin)) => tback.some

\* a ray from behind through the interior is not a hit, the ray coming back
\* is
C19_Witness ==
    /\ tripc = "shot"
    /\ ThroughInterior(triangle, tray)
    /\ ~OnNormalSide(triangle, tray.origin)
    /\ OnNormalSide(triangle, Reverse(tray).origin)
    /\ ~thit.some
    /\ tback.some

(***************************************************************************)
(* Properties of the trees the partitioners build                          *)
(***************************************************************************)
\* the closed boxes b1 and b2 share a point
Overlap(b1, b2) ==
    \A i \in Axes : Max(b1.min[i], b2.min[i]) <= Min(b1.max[i], b2.max[i])

\* the members of a sequence of primitives whose bounds overlap box
Overlapping(members, box) ==
    SelectSeq(members, LAMBDA obj : Overlap(box, Bounds(obj)))

\* the octant oct, built for the primitives members, and every octant below
\* it: it is a leaf that holds its members and has no child, or it holds
\* nothing and its i-th child exists iff some member overlaps the i-th
\* octant of its box, and that child is built for exactly those members
RECURSIVE OctantShape(_, _)
OctantShape(oct, members) ==
    LET kids == {i \in 1..8 : oct.children[i].child} IN
    /\ kids /= {} => oct.objects = <<>>
    /\ oct.objects /= <<>> => kids = {}
    /\ \/ kids = {} /\ oct.objects = members
       \/ /\ oct.objects = <<>>
          /\ \A i \in 1..8 :
               LET mine == Overlapping(members, Octants(oct.bbox)[i]) IN
               /\ oct.children[i].child <=> mine /= <<>>
               /\ oct.children[i].child =>
                     /\ oct.children[i].bbox = Octants(oct.bbox)[i]
                     /\ OctantShape(oct.children[i], mine)

\* C13: in every tree built by Octree::new an octant with a child holds no
\* primitive, primitives are held by childless octants only, and at a
\* subdivided octant every member is in every child whose box overlaps its
\* bounds, a child existing iff some member overlaps its box
C13_OctreeShape ==
    (ppc \in {"built", "queried"} /\ octree /= NoTree)
        => OctantShape(octree.root, objects)

\* a subdivided root with a primitive held by two of its children
C13_Witness ==
    /\ ppc = "built" /\ octree /= NoTree
    /\ octree.root.objects = <<>>
    /\ \E i, j \in 1..8 :
         /\ i /= j
         /\ octree.root.children[i].child
         /\ octree.root.children[j].child
         /\ \E k \in DOMAIN objects :
              /\ \E m \in DOMAIN octree.root.children[i].objects :
                   octree.root.children[i].objects[m] = objects[k]
              /\ \E m \in DOMAIN octree.root.children[j].objects :
                   octree.root.children[j].objects[m] = objects[k]
    /\ \E i \in 1..8 : ~octree.root.children[i].child

(***************************************************************************)
(* C11: KdTree::from_objects over N >= 1 primitives loses none: the index  *)
(* lists of the Leaf nodes together hold every index 0..N-1 (1..N here),   *)
(* and at every Branch each index held below it is held below its left     *)
(* child, its right child or both.                                         *)
(***************************************************************************)
RECURSIVE LeafIndices(_)
LeafIndices(node) ==
    IF node.kind = "Leaf" THEN {node.objects[i] : i \in DOMAIN node.objects}
    ELSE LeafIndices(node.left) \cup LeafIndices(node.right)

\* the box of the node, which build_node folds from the bounds of the
\* indices it was given, is spanned by the bounds of the indices held below
SpannedByLeaves(node, all_objects) ==
    LET held == LeafIndices(node) IN
    \A a \in Axes :
        /\ \A i \in held : /\ node.bbox.min[a] <= Bounds(all_objects[i]).min[a]
                           /\ Bounds(all_objects[i]).max[a] <= node.bbox.max[a]
        /\ \E i \in held : node.bbox.min[a] = Bounds(all_objects[i]).min[a]
        /\ \E i \in held : node.bbox.max[a] = Bounds(all_objects[i]).max[a]

\* below every Branch the two children hold what the Branch was given, and
\* a Leaf holds no index twice
RECURSIVE NothingLost(_, _)
NothingLost(node, all_objects) ==
    IF node.kind = "Leaf"
      THEN Cardinality(LeafIndices(node)) = Len(node.objects)
      ELSE /\ SpannedByLeaves(node, all_objects)
           /\ LeafIndices(node.left) # {}
           /\ LeafIndices(node.right) # {}
           /\ NothingLost(node.left, all_objects)
           /\ NothingLost(node.right, all_objects)

C11_EveryIndexInALeaf ==
    kdtree # NoTree =>
        /\ LeafIndices(kdtree.root) = 1..Len(objects)
        /\ NothingLost(kdtree.root, objects)

\* a Branch was built, and an index went to both sides of it
C11_Witness ==
    /\ kdtree # NoTree
    /\ kdtree.root.kind = "Branch"
    /\ LeafIndices(kdtree.root.left) \cap LeafIndices(kdtree.root.right) # {}
    /\ LeafIndices(kdtree.root.left) \ LeafIndices(kdtree.root.right) # {}
    /\ LeafIndices(kdtree.root) = 1..Len(objects)

(***************************************************************************)
(* C12: the index list of every Leaf holds every primitive of the input    *)
(* whose bounds overlap the bounding box of that Leaf.                     *)
(***************************************************************************)
RECURSIVE LeavesOf(_)
LeavesOf(node) ==
    IF node.kind = "Leaf" THEN {node}
    ELSE LeavesOf(node.left) \cup LeavesOf(node.right)

C12_LeafHoldsOverlapping ==
    kdtree # NoTree =>
        \A l \in LeavesOf(kdtree.root) :
            \A i \in DOMAIN objects :
                Overlap(l.bbox, Bounds(objects[i])) =>
                    i \in {l.objects[k] : k \in DOMAIN l.objects}

(***************************************************************************)
(* C20: at a Branch of which both children report a hit, Node::intersect   *)
(* returns the closer of the two; when one child alone reports a hit, that *)
(* hit is returned.                                                        *)
(***************************************************************************)
C20_BranchReturnsCloser ==
    (ppc = "queried" /\ kdtree # NoTree /\ kdtree.root.kind = "Branch"
        /\ AABBoxHit(kdtree.root.bbox, ray)) =>
        LET l == NodeIntersect(kdtree.root.left, ray, objects)
            r == NodeIntersect(kdtree.root.right, ray, objects)
        IN /\ (l.some /\ r.some) =>
                  /\ hit \in {l, r}
                  /\ ~DistLess(l, hit)
                  /\ ~DistLess(r, hit)
           /\ (l.some /\ ~r.some) => hit = l
           /\ (r.some /\ ~l.some) => hit = r

(***************************************************************************)
(* C21: at a Branch of which both children report a hit, Node::intersect   *)
(* returns the hit of one fixed side, whatever the two distances are.  As  *)
(* stated, that side is the left one.                                      *)
(***************************************************************************)
BothChildrenHit ==
    /\ ppc = "queried" /\ kdtree # NoTree /\ kdtree.root.kind = "Branch"
    /\ AABBoxHit(kdtree.root.bbox, ray)
    /\ NodeIntersect(kdtree.root.left, ray, objects).some
    /\ NodeIntersect(kdtree.root.right, ray, objects).some

C21_BranchReturnsLeft ==
    BothChildrenHit => hit = NodeIntersect(kdtree.root.left, ray, objects)

\* C21 as the code has it: the side is the right one
C21_BranchReturnsRight ==
    BothChildrenHit => hit = NodeIntersect(kdtree.root.right, ray, objects)

\* both children hit, the left one strictly closer, and the right one's hit
\* came back
C21_Witness ==
    /\ BothChildrenHit
    /\ DistLess(NodeIntersect(kdtree.root.left, ray, objects),
                NodeIntersect(kdtree.root.right, ray, objects))
    /\ hit = NodeIntersect(kdtree.root.right, ray, objects)

(***************************************************************************)
(* C22: KdTree::from_objects terminates and returns a tree for every       *)
(* finite non-empty collection, those of 32 or more primitives whose       *)
(* bounds coincide or all straddle every median included.                  *)
(***************************************************************************)
C22_FromObjectsReturns == <>(build_pc = "returned")

(***************************************************************************)
(* C23: Octant::new terminates for every max_depth, leaf threshold, root   *)
(* box and primitive list; a call at depth max_depth, or with no more      *)
(* members than the threshold, returns a leaf that holds all the members   *)
(* it was given; no octant is built deeper than max_depth (the root has    *)
(* depth 1).                                                               *)
(***************************************************************************)
C23_LeafRule ==
    \A k \in DOMAIN oct_made :
        LET o == oct_made[k] IN
        (o.cur_depth = oct_call.max_depth
            \/ Len(o.given) <= oct_call.max_objects_in_leaf)
          => (o.leaf /\ o.objects = o.given)

C23_DepthRule ==
    \A k \in DOMAIN oct_made : oct_made[k].cur_depth <= oct_call.max_depth

C23_OctantNewTerminates ==
    /\ <>(oct_pc = "returned")
    /\ [](C23_LeafRule /\ C23_DepthRule)

(***************************************************************************)
(* C24: when y_res is not a multiple of num_threads, render drops the      *)
(* remainder rows: no more than num_threads bands of y_res / num_threads   *)
(* rows are rendered, the last y_res mod num_threads rows of the image are *)
(* never written, no worker fails and no worker writes outside its band.   *)
(***************************************************************************)
RowsRemain == num_threads >= 1 /\ y_res % num_threads # 0

\* the elements of the rows after the num_threads bands
RemainderPixels ==
    {p \in DOMAIN image : p >= num_threads * (y_res \div num_threads) * x_res}

C24_RemainderRowsDropped ==
    RowsRemain =>
        /\ Len(workers) <= num_threads
        /\ \A p \in RemainderPixels : image[p].acc = 0
        /\ \A i \in WorkerIds : workers[i].pc # "panicked"
        /\ \A p \in DOMAIN image : \A t \in image[p].by :
              /\ ChunkBase(t) <= p
              /\ p < ChunkBase(t) + ChunkSize

(***************************************************************************)
(* C25: for a primitive set of any size, one that makes from_objects build *)
(* Branch nodes in particular, and every ray, KdTree::intersect returns a  *)
(* hit iff at least one primitive is hit by the ray: the tests of the      *)
(* nodes' boxes never lose every hit.                                      *)
(***************************************************************************)
\* the bounds of every primitive held below a node are inside its box
RECURSIVE MembersInsideBoxes(_)
MembersInsideBoxes(node) ==
    /\ \A i \in LeafIndices(node) : BoxContains(node.bbox, Bounds(objects[i]))
    /\ node.kind = "Branch" =>
          MembersInsideBoxes(node.left) /\ MembersInsideBoxes(node.right)

C25_HitIffSomePrimitiveHit ==
    (ppc = "queried" /\ kdtree # NoTree) =>
        /\ hit.some <=> PrimHits # <<>>
        /\ MembersInsideBoxes(kdtree.root)

\* below a Branch the ray misses the box of one child, which is not
\* searched, and hits a primitive of the other
C25_Witness ==
    /\ ppc = "queried" /\ kdtree # NoTree
    /\ kdtree.root.kind = "Branch"
    /\ ~AABBoxHit(kdtree.root.right.bbox, ray)
    /\ PrimHits # <<>>
    /\ hit.some

(***************************************************************************)
(* C26: in trace_ray a tie in squared distance between the object hit and  *)
(* a light hit, both nearest, decides what the call returns.  As stated,   *)
(* the tie counts as no hit: the call returns 0.                           *)
(***************************************************************************)
\* cur is an invocation that has just returned ret and whose vec had a tie
TieReturned == tpc = "returned" /\ cur.tie

C26_TieIsNoHit == TieReturned => ret = 0

\* C26 as the code has it: the tie counts as the object hit.  The call
\* returns 0 with no bounce left and 0.98 times what its recursive call
\* returned otherwise, never the 1.0 of a light
C26_TieIsObjectHit ==
    TieReturned =>
        /\ ret # One
        /\ ~BouncesRemain(cur.remaining_steps) =>
              /\ InnermostReturned
              /\ leaf = "object"
              /\ ret = 0
        /\ BouncesRemain(cur.remaining_steps) =>
              /\ ~InnermostReturned
              /\ ret = IF leaf = "light" THEN Frac(calls - 1 - Len(stack)) ELSE 0

\* the top-level call had a tie, bounced, and its recursive call reached a
\* light: it returned 0.98
C26_Witness ==
    /\ TieReturned
    /\ stack = <<>>
    /\ calls = 2
    /\ leaf = "light"
    /\ ret = Frac(1)

(***************************************************************************)
(* C27: from_objects over fewer than MIN_OBJECTS_IN_LEAF primitives builds *)
(* a root that is one Leaf, whose box is the union of the primitives'      *)
(* bounds (on each axis the least min and the greatest max) and whose      *)
(* index list is 0..N-1 in input order (1..N here); a Branch is built only *)
(* for MIN_OBJECTS_IN_LEAF members or more.                                *)
(***************************************************************************)
\* box is the union of the bounds of all the objects
UnionOfBounds(box) ==
    \A a \in Axes :
        /\ \A i \in DOMAIN objects : /\ box.min[a] <= Bounds(objects[i]).min[a]
                                     /\ Bounds(objects[i]).max[a] <= box.max[a]
        /\ \E i \in DOMAIN objects : box.min[a] = Bounds(objects[i]).min[a]
        /\ \E i \in DOMAIN objects : box.max[a] = Bounds(objects[i]).max[a]

\* every Branch below the node holds MIN_OBJECTS_IN_LEAF indices or more
RECURSIVE BranchesAreLarge(_)
BranchesAreLarge(node) ==
    node.kind = "Branch" =>
        /\ Cardinality(LeafIndices(node)) >= MIN_OBJECTS_IN_LEAF
        /\ BranchesAreLarge(node.left)
        /\ BranchesAreLarge(node.right)

C27_SmallSetIsOneLeaf ==
    kdtree # NoTree =>
        /\ Len(objects) < MIN_OBJECTS_IN_LEAF =>
              /\ kdtree.root.kind = "Leaf"
              /\ kdtree.root.objects = [i \in 1..Len(objects) |-> i]
              /\ UnionOfBounds(kdtree.root.bbox)
        /\ BranchesAreLarge(kdtree.root)

\* one Leaf over two primitives with different bounds
C27_Witness ==
    /\ kdtree # NoTree
    /\ Len(objects) = 2
    /\ Bounds(objects[1]) # Bounds(objects[2])
    /\ kdtree.root.kind = "Leaf"
    /\ kdtree.root.objects = <<1, 2>>

(***************************************************************************)
(* C28: AABBox::intersect reports a hit iff tmax >= tmin once the window   *)
(* has been tightened over the axes on which the direction is not zero: a  *)
(* parameter t exists at which the ray's line is inside the box's interval *)
(* on each of those axes.  An axis with a zero direction component is      *)
(* skipped, so a ray parallel to an axis with its origin outside the box's *)
(* interval on that axis is still reported as hitting when the windows of  *)
(* the other axes overlap.                                                 *)
(***************************************************************************)
\* the parameters at which a line of the model can cross a face of a box
SlabParams == (-(MaxCoord + 1))..(MaxCoord + 1)

\* at parameter t the line is inside the interval of the box on axis i
InsideOnAxis(box, r, i, t) ==
    /\ Min(box.min[i], box.max[i]) <= r.origin[i] + t * r.dir[i]
    /\ r.origin[i] + t * r.dir[i] <= Max(box.min[i], box.max[i])

C28_SlabSkipsParallelAxes ==
    slab_pc = "called" =>
        (slab_hit <=>
            \E t \in SlabParams :
                \A i \in Axes :
                    slab_ray.dir[i] # 0 => InsideOnAxis(slab_box, slab_ray, i, t))

\* a ray parallel to the x axis planes, beside the box on x, is a hit
C28_Witness ==
    /\ slab_pc = "called"
    /\ WellFormedBox(slab_box)
    /\ slab_ray.dir[1] = 0
    /\ slab_ray.origin[1] > slab_box.max[1]
    /\ slab_hit

(***************************************************************************)
(* C29: for a box with min <= max on each axis, AABBox::octants returns 8  *)
(* boxes, in the same order on every call, each with min <= max, each      *)
(* spanned by the center of the box and a corner of it, a different corner *)
(* for each, each contained in the box, and together covering the box.     *)
(***************************************************************************)
\* the corners of a box, by the end of the box taken on each axis
CornerChoices == [Axes -> {"min", "max"}]
CornerAt(box, ch) == [i \in Axes |-> IF ch[i] = "min" THEN box.min[i] ELSE box.max[i]]

\* the box spanned by two points
SpannedBy(b, p, q) ==
    \A i \in Axes : b.min[i] = Min(p[i], q[i]) /\ b.max[i] = Max(p[i], q[i])

\* the points of the grid, the half-way points included
GridPoints == [Axes -> 0..(2 * MaxCoord)]

C29_OctantsCoverTheBox ==
    \A n \in DOMAIN octs_out :
        LET o == octs_out[n] IN
        \E center \in GridPoints :
            /\ \A i \in Axes : 2 * center[i] = octs_box.min[i] + octs_box.max[i]
            /\ Len(o) = 8
            /\ o = octs_out[1]
            /\ \A k \in 1..8 :
                  /\ WellFormedBox(o[k])
                  /\ BoxContains(octs_box, o[k])
                  /\ \E ch \in CornerChoices :
                        SpannedBy(o[k], CornerAt(octs_box, ch), center)
            /\ \A ch \in CornerChoices : \E k \in 1..8 :
                  SpannedBy(o[k], CornerAt(octs_box, ch), center)
            /\ \A pt \in GridPoints :
                  HoldsPoint(octs_box, pt) => \E k \in 1..8 : HoldsPoint(o[k], pt)

\* two calls on a box with eight different corners
C29_Witness ==
    /\ Len(octs_out) = 2
    /\ \A i \in Axes : octs_box.min[i] < octs_box.max[i]
    /\ Cardinality({octs_out[2][k] : k \in 1..8}) = 8

(***************************************************************************)
(* C30: the iterator of Camera::rays(x_res, y_res, samples_per_pixel)      *)
(* yields the pixels in row-major order (x fastest, then y), exactly       *)
(* samples_per_pixel rays for each of the x_res * y_res pixels, every      *)
(* yielded (x, y) has x < x_res and y < y_res, and after the last pixel    *)
(* every call returns None.                                                *)
(***************************************************************************)
\* the number of items yielded for the pixel (x, y)
RaysOf(x, y) ==
    Cardinality({k \in DOMAIN items : items[k] = SomePixel(x, y)})

C30_RowMajor ==
    \A k \in 1..(Len(items) - 1) :
        (items[k].some /\ items[k + 1].some) =>
            \/ items[k + 1].y > items[k].y
            \/ items[k + 1].y = items[k].y /\ items[k + 1].x >= items[k].x

C30_InsideTheImage ==
    \A k \in DOMAIN items :
        items[k].some => (items[k].x < iter.x_res /\ items[k].y < iter.y_res)

C30_NoneIsFinal ==
    \A k \in 1..(Len(items) - 1) : ~items[k].some => ~items[k + 1].some

C30_SamplesPerPixel ==
    \A x \in 0..(iter.x_res - 1), y \in 0..(iter.y_res - 1) :
        /\ RaysOf(x, y) <= iter.samples_per_pixel
        /\ NonesReturned > 0 => RaysOf(x, y) = iter.samples_per_pixel

C30_RaysOfEveryPixel ==
    /\ C30_RowMajor
    /\ C30_InsideTheImage
    /\ C30_NoneIsFinal
    /\ C30_SamplesPerPixel

=============================================================================
